---- MODULE Spec2Model ----
(***************************************************************************)
(* Model of the sealos agent client (src/src/client/index.ts): the task    *)
(* dispatcher (executeSingleMcpTask, runMcpTask, runMcpTaskLegacy), the    *)
(* live-worker set activeMcpServers and displayAggregatedResults, the       *)
(* Session Context (updateParameters), the interrupt handler and            *)
(* cleanupAndExit.                                                          *)
(*                                                                         *)
(* Text is modelled as a sequence of tokens.  "{" "}" and "\n" stand for    *)
(* themselves, a key token stands for a quoted member name with its colon, *)
(* an atom token for a scalar JSON value and "x" for any other text.       *)
(***************************************************************************)
EXTENDS Integers, Sequences, FiniteSets, TLC

VARIABLES
  pc,                \* position of the line handler: idle, awaiting a join, done
  paramsList,        \* the batch handed to runMcpTask / runMcpTaskLegacy
  script,            \* per worker: the chunks its process writes to stdout
  task,              \* per worker: the closure state of executeSingleMcpTask
  activeMcpServers,  \* the live-worker set
  now,               \* clock, in seconds
  results,           \* what runMcpTask / runMcpTaskLegacy returned
  thrown,            \* what runMcpTaskLegacy threw
  shown,             \* what was displayed, in display order
  summary,           \* the summary lines displayed
  parameters,        \* the Session Context
  turn,              \* the line of the current turn, the Session Context
                     \* before it, what updateParameters returned, the
                     \* backend's answer, the fused candidates and the
                     \* errors shown
  lastToolResult,    \* the snapshot of the last dispatched turn's results
  overlapping,       \* how many line handlers that started while another
                     \* turn was suspended are suspended themselves
  rlLine,            \* rl.line: the text typed and not yet submitted
  lastSigintTime,    \* Date.now() of the last interrupt on an empty line
  interrupts,        \* how many interrupts were handled
  said,              \* what the last interrupt or quit wrote to the terminal
  host               \* the client process: running, or exited and when

dispatchVars == <<pc, paramsList, script, task, activeMcpServers, now,
                  results, thrown, shown, summary>>
contextVars == <<parameters, turn, lastToolResult, overlapping>>
shellVars == <<rlLine, lastSigintTime, interrupts, said, host>>

vars == <<dispatchVars, contextVars, shellVars>>

----------------------------------------------------------------------------
(* Bounds *)

MaxBatch == 3
MaxChunks == 2
TickStep == 30
MaxFaults == 1
MaxTokens == 3
MaxTyped == 1
MaxInterrupts == 3
MaxWait == 2
MaxCandidates == 2
MaxOverlap == 1

(* Program constants *)

TaskTimeout == 30

\* The line count used when --lines carries no usable value
DefaultLines == 30
SigintWindow == 2
KillGrace == 3

----------------------------------------------------------------------------
(* Tokens and JSON text *)

NL == "\n"
Keys == {"result", "error", "message", "content", "id"}
Atoms == {"null", "t1", "t2", "m1", "pods2", "ev2", "man"}

Min(a, b) == IF a < b THEN a ELSE b

IsSpace(t) == t \in {NL, " "}

\* String.prototype.trim
RECURSIVE TrimLeft(_)
TrimLeft(s) ==
  IF s # <<>> /\ IsSpace(Head(s)) THEN TrimLeft(Tail(s)) ELSE s

RECURSIVE TrimRight(_)
TrimRight(s) ==
  IF s # <<>> /\ IsSpace(s[Len(s)]) THEN TrimRight(SubSeq(s, 1, Len(s) - 1))
  ELSE s

Trim(s) == TrimRight(TrimLeft(s))

\* String.prototype.split('\n')
RECURSIVE SplitLines(_)
SplitLines(s) ==
  IF \E k \in 1..Len(s) : s[k] = NL
  THEN LET k == CHOOSE j \in 1..Len(s) :
                  s[j] = NL /\ \A h \in 1..(j - 1) : s[h] # NL
       IN  <<SubSeq(s, 1, k - 1)>> \o SplitLines(SubSeq(s, k + 1, Len(s)))
  ELSE <<s>>

\* line.startsWith('{') && line.endsWith('}')
Framed(line) == line # <<>> /\ Head(line) = "{" /\ line[Len(line)] = "}"

\* JSON.parse, as a recursive descent over the tokens.  ParseValue(s, i)
\* parses one value starting at s[i]: ok tells whether that succeeded and
\* next is the position after the value.
RECURSIVE ParseValue(_, _), ParseMembers(_, _)
ParseValue(s, i) ==
  IF i > Len(s) THEN [ok |-> FALSE, next |-> i]
  ELSE IF s[i] \in Atoms THEN [ok |-> TRUE, next |-> i + 1]
  ELSE IF s[i] = "{" THEN ParseMembers(s, i + 1)
  ELSE [ok |-> FALSE, next |-> i]

ParseMembers(s, i) ==
  IF i > Len(s) THEN [ok |-> FALSE, next |-> i]
  ELSE IF s[i] = "}" THEN [ok |-> TRUE, next |-> i + 1]
  ELSE IF s[i] \in Keys
       THEN LET v == ParseValue(s, i + 1)
            IN  IF v.ok THEN ParseMembers(s, v.next)
                ELSE [ok |-> FALSE, next |-> i]
  ELSE [ok |-> FALSE, next |-> i]

\* JSON.parse(line) does not throw
JsonOk(s) ==
  LET v == ParseValue(s, 1) IN v.ok /\ v.next = Len(s) + 1

\* The members of the object whose "{" is at s[i - 1], in text order.
RECURSIVE ObjMembers(_, _)
ObjMembers(s, i) ==
  IF s[i] = "}" THEN <<>>
  ELSE LET v == ParseValue(s, i + 1)
       IN  <<[key |-> s[i], val |-> SubSeq(s, i + 1, v.next - 1)]>>
             \o ObjMembers(s, v.next)

\* obj[k] of a decoded value: the last member named k, <<>> for undefined
GetField(val, k) ==
  IF val = <<>> \/ Head(val) # "{" THEN <<>>
  ELSE LET ms == ObjMembers(val, 2)
           hits == {j \in 1..Len(ms) : ms[j].key = k}
       IN  IF hits = {} THEN <<>>
           ELSE ms[CHOOSE j \in hits : \A h \in hits : h <= j].val

\* JavaScript truthiness of a decoded value (undefined and null are falsy)
Truthy(val) == val # <<>> /\ val # <<"null">>

----------------------------------------------------------------------------
(* Outcomes *)

Undefined == [tag |-> "undefined", value |-> <<>>]
Null == [tag |-> "null", value |-> <<>>]
Value(v) == [tag |-> "value", value |-> v]

NoError == [kind |-> "none", code |-> "", msg |-> <<>>]
TimeoutError ==
  [kind |-> "timeout", code |-> "",
   msg |-> <<"Request timeout after 30 seconds">>]
ServerError(m) ==
  [kind |-> "server", code |-> "", msg |-> <<"Server returned error:">> \o m]
ExitError(code) ==
  [kind |-> "exit", code |-> code, msg |-> <<"Server exited with code">>]
SpawnError == [kind |-> "spawn", code |-> "", msg |-> <<"spawn failed">>]
WriteError == [kind |-> "write", code |-> "", msg |-> <<"write failed">>]

Pending ==
  [state |-> "pending", resource |-> "", result |-> Undefined,
   error |-> NoError]
Success(r, payload) ==
  [state |-> "resolved", resource |-> r, result |-> payload,
   error |-> NoError]
Failure(r, e) ==
  [state |-> "resolved", resource |-> r, result |-> Undefined, error |-> e]

----------------------------------------------------------------------------
(* executeSingleMcpTask: the worker's closure state and its handlers *)

\* server.kill(): a signal is sent only while the process is running
Kill(t) ==
  IF t.proc = "running"
  THEN [t EXCEPT !.killed = TRUE, !.signals = Append(@, "SIGTERM")]
  ELSE t

\* clearTimeout(timeout)
ClearTimeout(t) ==
  [t EXCEPT !.timer = IF @ = "armed" THEN "cleared" ELSE @]

\* resolve(v): a promise keeps the first value it is resolved with
Resolve(t, v) ==
  [t EXCEPT !.outcome = IF @ = Pending THEN v ELSE @,
            !.resolveCalls = @ + 1]

\* ScanLines that takes any line that decodes for the response
RECURSIVE ScanLinesAnyObject(_, _)
ScanLinesAnyObject(lines, k) ==
  IF k > Len(lines) THEN [act |-> "none", val |-> <<>>]
  ELSE LET line == lines[k] IN
       IF Framed(line) /\ JsonOk(line)
       THEN IF Truthy(GetField(line, "error"))
            THEN [act |-> "error", val |-> GetField(line, "error")]
            ELSE [act |-> "result", val |-> GetField(line, "result")]
       ELSE ScanLinesAnyObject(lines, k + 1)

\* The for loop over the lines of the stdout handler, from line k on: the
\* first framed line that decodes and carries a truthy error or result
\* decides; unframed lines and lines that fail to decode are skipped.
RECURSIVE ScanLines(_, _)
ScanLines(lines, k) ==
  IF k > Len(lines) THEN [act |-> "none", val |-> <<>>]
  ELSE LET line == lines[k] IN
       IF Framed(line) /\ JsonOk(line)
       THEN IF Truthy(GetField(line, "error"))
            THEN [act |-> "error", val |-> GetField(line, "error")]
            ELSE IF Truthy(GetField(line, "result"))
            THEN [act |-> "result", val |-> GetField(line, "result")]
            ELSE ScanLines(lines, k + 1)
       ELSE ScanLines(lines, k + 1)

\* response.error.message || 'Unknown error'
ErrorMessage(err) ==
  IF Truthy(GetField(err, "message")) THEN GetField(err, "message")
  ELSE <<"Unknown error">>

\* The promise executor of executeSingleMcpTask up to the request: spawn,
\* registration, the closure variables and the timer.
Spawned(p, spawnFails) ==
  [resource |-> p.resource,
   proc |-> IF spawnFails THEN "nospawn" ELSE "running",
   errPending |-> spawnFails,
   hasResponded |-> FALSE,
   outcome |-> Pending,
   resolveCalls |-> 0,
   responseData |-> <<>>,
   timer |-> "armed",
   deadline |-> now + TaskTimeout,
   killed |-> FALSE,
   signals |-> <<>>,
   delivered |-> 0,
   unread |-> 0,
   exitCode |-> "",
   events |-> <<"register">>]

\* The try/catch around the request: the write either succeeds or throws.
SendRequest(t, writeThrows) ==
  IF writeThrows
  THEN IF ~t.hasResponded
       THEN Resolve(Kill(ClearTimeout([t EXCEPT !.hasResponded = TRUE])),
                    Failure(t.resource, WriteError))
       ELSE t
  ELSE [t EXCEPT !.events = Append(@, "write")]

executeSingleMcpTask(p, spawnFails, writeThrows) ==
  SendRequest(Spawned(p, spawnFails), writeThrows)

\* StdoutHandler that decodes only the first line of the buffer
StdoutHandlerFirstLineOnly(t, data) ==
  IF t.hasResponded THEN t
  ELSE LET buf == t.responseData \o data
           hit == ScanLines(<<Head(SplitLines(Trim(buf)))>>, 1)
           t1 == [t EXCEPT !.responseData = buf]
           t2 == Kill(ClearTimeout([t1 EXCEPT !.hasResponded = TRUE]))
       IN  CASE hit.act = "error" ->
                  Resolve(t2, Failure(t.resource,
                                      ServerError(ErrorMessage(hit.val))))
             [] hit.act = "result" ->
                  Resolve(t2, Success(t.resource, Value(hit.val)))
             [] OTHER -> t1

\* The body of the stdout 'data' handler for one chunk.
StdoutHandler(t, data) ==
  IF t.hasResponded THEN t
  ELSE LET buf == t.responseData \o data
           hit == ScanLines(SplitLines(Trim(buf)), 1)
           t1 == [t EXCEPT !.responseData = buf]
           t2 == Kill(ClearTimeout([t1 EXCEPT !.hasResponded = TRUE]))
       IN  CASE hit.act = "error" ->
                  Resolve(t2, Failure(t.resource,
                                      ServerError(ErrorMessage(hit.val))))
             [] hit.act = "result" ->
                  Resolve(t2, Success(t.resource, Value(hit.val)))
             [] OTHER -> t1

\* The 'error' handler.
ErrorHandler(t) ==
  IF ~t.hasResponded
  THEN Resolve(ClearTimeout([t EXCEPT !.hasResponded = TRUE]),
               Failure(t.resource, SpawnError))
  ELSE t

\* ExitHandler without its hasResponded test
ExitHandlerUnguarded(t, code) ==
  Resolve(ClearTimeout([t EXCEPT !.hasResponded = TRUE]),
          IF code # "0" THEN Failure(t.resource, ExitError(code))
          ELSE Success(t.resource, Null))

\* ExitHandler reporting every exit of an unsettled task as a failure
ExitHandlerAlwaysFails(t, code) ==
  IF ~t.hasResponded
  THEN Resolve(ClearTimeout([t EXCEPT !.hasResponded = TRUE]),
               Failure(t.resource, ExitError(code)))
  ELSE t

\* The second 'exit' handler.
ExitHandler(t, code) ==
  IF ~t.hasResponded
  THEN Resolve(ClearTimeout([t EXCEPT !.hasResponded = TRUE]),
               IF code # "0" THEN Failure(t.resource, ExitError(code))
               ELSE Success(t.resource, Null))
  ELSE t

\* TimeoutHandler that terminates the worker but does not resolve
TimeoutHandlerKillOnly(t) ==
  IF ~t.hasResponded THEN Kill([t EXCEPT !.hasResponded = TRUE]) ELSE t

\* TimeoutHandler that resolves but leaves the worker running
TimeoutHandlerNoKill(t) ==
  IF ~t.hasResponded
  THEN Resolve([t EXCEPT !.hasResponded = TRUE],
               Failure(t.resource, TimeoutError))
  ELSE t

\* The setTimeout callback.
TimeoutHandler(t) ==
  IF ~t.hasResponded
  THEN Resolve(Kill([t EXCEPT !.hasResponded = TRUE]),
               Failure(t.resource, TimeoutError))
  ELSE t

----------------------------------------------------------------------------
(* Inputs: the queries of a batch and what each worker writes *)

ResultLine(t) == <<"{", "result", "{", "content", t, "}", "}">>
ErrorLine(m) == <<"{", "error", "{", "message", m, "}", "}">>

\* Every way of cutting s into at most k chunks
RECURSIVE Chunkings(_, _)
Chunkings(s, k) ==
  IF s = <<>> THEN {<<>>}
  ELSE IF k <= 1 THEN {<<s>>}
  ELSE {<<s>>} \cup
       UNION {{<<SubSeq(s, 1, j)>> \o rest :
                 rest \in Chunkings(SubSeq(s, j + 1, Len(s)), k - 1)} :
              j \in 1..(Len(s) - 1)}

\* Output streams of a single worker
Streams ==
  { <<>>,
    ResultLine("t1") \o <<NL>>,
    <<"x", NL>> \o ResultLine("t1") \o <<NL>>,
    ErrorLine("m1") \o <<NL>>,
    <<"{", "error", "t1", "}", NL>>,
    <<"{", "result", "t1", "error", "{", "message", "m1", "}", "}", NL>>,
    <<"{", "result", "null", "}", NL, "{", "result", "t2", "}", NL>>,
    <<"{", "x", "}", NL, "{", "result", "t1", "}", NL>>,
    <<"{", "result", "t1", "}", NL, "{", "result", "t2", "}", NL>>,
    <<"{", "result", "t1", "}", NL, "{", "error", "m1", "}", NL>>,
    <<"{", "id", "t1", "}", NL, "x", NL>> }

SingleScripts == UNION {Chunkings(s, MaxChunks) : s \in Streams}

\* In a batch every worker writes its output in one chunk
BatchScripts == { <<>>, <<ResultLine("t1") \o <<NL>>>> }

\* "cert" is a kind of TOOL_MAPPING that the priority table does not list
Kinds == <<"pods", "cluster", "cert", "devbox">>
KindAt(i) == Kinds[((i - 1) % Len(Kinds)) + 1]

\* The batches handed to runMcpTask: n queries of distinct kinds
Batch(n) == [i \in 1..n |-> [resource |-> KindAt(i)]]

\* Exit codes of a process that ends by itself; one that ends by a signal
\* reports the code null
ExitCodes == {"0", "1"}

\* The faults injected into a batch: which spawns fail, which writes throw
Faults(n) ==
  {f \in [1..n -> [spawnFails : BOOLEAN, writeThrows : BOOLEAN]] :
     Cardinality({i \in 1..n : f[i].spawnFails \/ f[i].writeThrows})
       <= MaxFaults}

----------------------------------------------------------------------------
(* Session Context: updateParameters *)

\* A field of GlobalParameters is null or a string
None == <<>>
Str(w) == <<w>>

EmptyParameters ==
  [zone |-> None, namespace |-> None, resource |-> None, name |-> None]

KNOWN_ZONES == {"hzh", "bja", "gzg"}

IGNORED_KEYWORDS ==
  {"describe", "inspect", "get", "list", "show", "watch", "debug"}

KNOWN_RESOURCES ==
  {"cluster", "node", "account", "debt", "devbox", "objectstorage", "obs",
   "bucket", "certificate", "cert", "cronjob", "pods", "pod", "ingress",
   "event", "quota"}

\* The words a line is made of.  A word is one string; its lower-case form
\* and whether it begins with "ns-" are tabulated.
Words ==
  <<"hzh", "bja", "HZH", "ns-a", "ns-b", "devbox", "pods", "describe",
    "my-app">>

UpperCased == [HZH |-> "hzh"]

toLowerCase(w) == IF w \in DOMAIN UpperCased THEN UpperCased[w] ELSE w

StartsWithNs(w) == w \in {"ns-a", "ns-b"}

\* inputString.trim().split(/\s+/): the empty string gives one empty token
Split(inputString) == IF inputString = <<>> THEN <<"">> ELSE inputString

\* The first pass over the tokens, from token i on, with the values
\* recognized so far
RECURSIVE FirstPass(_, _, _)
FirstPass(tokens, i, acc) ==
  IF i > Len(tokens) THEN acc
  ELSE LET lower == toLowerCase(tokens[i]) IN
       FirstPass(tokens, i + 1,
         IF lower = "" \/ lower = "!" \/ lower \in IGNORED_KEYWORDS THEN acc
         ELSE IF lower \in KNOWN_ZONES THEN [acc EXCEPT !.newZone = Str(lower)]
         ELSE IF StartsWithNs(lower) THEN [acc EXCEPT !.newNs = Str(lower)]
         ELSE IF lower \in KNOWN_RESOURCES
              THEN [acc EXCEPT !.newResource = Str(lower),
                               !.lastResourceIndex = i]
         ELSE acc)

\* The second pass: a name that takes the token after the first resource
\* kind of the line
NewNameAfterFirstResource(tokens, lastResourceIndex) ==
  LET kinds == {i \in 1..Len(tokens) :
                  toLowerCase(tokens[i]) \in KNOWN_RESOURCES}
      first == IF kinds = {} THEN 0
               ELSE CHOOSE i \in kinds : \A j \in kinds : i <= j
  IN  IF first # 0 /\ first + 1 <= Len(tokens)
      THEN LET potentialName == tokens[first + 1]
               lowerName == toLowerCase(potentialName)
           IN  IF /\ potentialName # ""
                  /\ lowerName \notin KNOWN_ZONES
                  /\ ~StartsWithNs(lowerName)
                  /\ lowerName \notin IGNORED_KEYWORDS
               THEN Str(potentialName)
               ELSE None
      ELSE None

\* The second pass: the token right after the last resource kind.  Indices
\* count from 1, and 0 stands for the -1 of the code.
NewName(tokens, lastResourceIndex) ==
  IF lastResourceIndex # 0 /\ lastResourceIndex + 1 <= Len(tokens)
  THEN LET potentialName == tokens[lastResourceIndex + 1]
           lowerName == toLowerCase(potentialName)
       IN  IF /\ potentialName # ""
              /\ lowerName \notin KNOWN_ZONES
              /\ ~StartsWithNs(lowerName)
              /\ lowerName \notin IGNORED_KEYWORDS
           THEN Str(potentialName)
           ELSE None
  ELSE None

\* newZone, newNs, newResource and newName after both passes
Recognize(tokens) ==
  LET acc == FirstPass(tokens, 1,
               [newZone |-> None, newNs |-> None, newResource |-> None,
                lastResourceIndex |-> 0])
  IN  [zone |-> acc.newZone, namespace |-> acc.newNs,
       resource |-> acc.newResource,
       name |-> NewName(tokens, acc.lastResourceIndex)]

\* A scope change that needs a stored value to differ from
ScopeChangedFromStored(p, r) ==
  \/ r.zone # None /\ p.zone # None /\ r.zone # p.zone
  \/ r.namespace # None /\ p.namespace # None /\ r.namespace # p.namespace

\* isZoneChanged || isNsChanged
ScopeChanged(p, r) ==
  \/ r.zone # None /\ r.zone # p.zone
  \/ r.namespace # None /\ r.namespace # p.namespace

\* A merge that assigns all four fields
MergedAll(p, r) == r

\* if (newX) parameters.x = newX, for the four fields
Merged(p, r) ==
  [zone |-> IF r.zone # None THEN r.zone ELSE p.zone,
   namespace |-> IF r.namespace # None THEN r.namespace ELSE p.namespace,
   resource |-> IF r.resource # None THEN r.resource ELSE p.resource,
   name |-> IF r.name # None THEN r.name ELSE p.name]

\* updateParameters that merges into the stored context whatever changed
updateParametersNoReset(p, inputString) ==
  LET r == Recognize(Split(inputString))
  IN  [parameters |-> Merged(p, r), isScopeChanged |-> ScopeChanged(p, r)]

\* updateParameters that resets after the merge
updateParametersResetLast(p, inputString) ==
  LET r == Recognize(Split(inputString))
      isScopeChanged == ScopeChanged(p, r)
  IN  [parameters |-> IF isScopeChanged THEN EmptyParameters
                      ELSE Merged(p, r),
       isScopeChanged |-> isScopeChanged]

\* updateParameters(inputString) on the stored context p: the context it
\* leaves and the value it returns
updateParameters(p, inputString) ==
  LET r == Recognize(Split(inputString))
      isScopeChanged == ScopeChanged(p, r)
  IN  [parameters |-> Merged(IF isScopeChanged THEN EmptyParameters ELSE p, r),
       isScopeChanged |-> isScopeChanged]

\* lastToolResult = null; a stored snapshot has an entry for every query of
\* its batch, so it is never empty
NoSnapshot == <<>>

\* A line handler that passes on the snapshot whatever updateParameters
\* returned
SnapshotKept(snapshot, isScopeChanged) == snapshot

\* if (isScopeChanged) lastToolResult = null
SnapshotAfterUpdate(snapshot, isScopeChanged) ==
  IF isScopeChanged THEN NoSnapshot ELSE snapshot

\* No turn is in progress
NoTurn(p) ==
  [input |-> <<>>, linesCount |-> None, warned |-> FALSE, before |-> p,
   isScopeChanged |-> FALSE, updated |-> p, dispatched |-> p,
   context |-> NoSnapshot, answered |-> FALSE, raw |-> <<>>, fused |-> <<>>,
   errors |-> <<>>]

----------------------------------------------------------------------------
(* The extractor's candidates and fusion *)

\* A field of a candidate is a string or is missing; the empty string and a
\* missing field are falsy
Present(v) == v # None /\ v # Str("")

\* A test of validItems that asks for no namespace
ValidItemWithoutNamespace(item) ==
  Present(item.resource) /\ Present(item.identifier)

\* The test of validItems: a candidate needs a resource, an identifier and,
\* unless its resource is node, a namespace
ValidItem(item) ==
  /\ Present(item.resource)
  /\ Present(item.identifier)
  /\ Present(item.namespace) \/ item.resource = Str("node")

\* What parseRawInput returns for the array raw the backend answered: the
\* valid items with the intent defaulted to list; the empty sequence stands
\* for null
parseRawInput(raw) ==
  LET validItems == SelectSeq(raw, ValidItem) IN
  [i \in 1..Len(validItems) |->
     [namespace |-> validItems[i].namespace,
      resource |-> validItems[i].resource,
      identifier |-> validItems[i].identifier,
      intent |-> IF Present(validItems[i].intent) THEN validItems[i].intent
                 ELSE Str("list")]]

\* !item.identifier || KNOWN_ZONES.has(item.identifier.toLowerCase())
isMissingOrZone(item) ==
  \/ ~Present(item.identifier)
  \/ toLowerCase(item.identifier[1]) \in KNOWN_ZONES

\* The namespace backfill that lets the stored namespace win
BackfillNamespaceStoredFirst(item, p) ==
  IF Present(p.namespace)
  THEN [item EXCEPT !.namespace = p.namespace]
  ELSE item

\* The namespace backfill of one candidate
BackfillNamespace(item, p) ==
  IF ~Present(item.namespace) /\ Present(p.namespace)
  THEN [item EXCEPT !.namespace = p.namespace]
  ELSE item

\* The identifier backfill that compares the identifier with the zone
\* keywords as it is written
BackfillIdentifierCaseSensitive(item, p) ==
  IF (~Present(item.identifier) \/ item.identifier[1] \in KNOWN_ZONES)
     /\ Present(p.zone)
  THEN [item EXCEPT !.identifier = p.zone]
  ELSE item

\* The identifier backfill of a list candidate
BackfillIdentifier(item, p) ==
  IF isMissingOrZone(item) /\ Present(p.zone)
  THEN [item EXCEPT !.identifier = p.zone]
  ELSE item

\* A fusion loop that leaves the stored name alone
KeepName(p) == p

\* A fusion loop that empties the whole stored context at a list candidate
ForgetContext(p) == EmptyParameters

\* if (parameters.name) parameters.name = null
ClearName(p) == IF Present(p.name) THEN [p EXCEPT !.name = None] ELSE p

\* The fusion loop from candidate i on.  acc holds the stored context, the
\* candidates as the loop has left them so far and whether the loop returned
\* early for an inspect candidate without a usable identifier.
RECURSIVE Fuse(_, _)
Fuse(acc, i) ==
  IF i > Len(acc.list) THEN acc
  ELSE LET item == BackfillNamespace(acc.list[i], acc.parameters) IN
       IF item.intent = Str("list")
       THEN Fuse([acc EXCEPT
                    !.parameters = ClearName(acc.parameters),
                    !.list[i] = BackfillIdentifier(item, acc.parameters)],
                 i + 1)
       ELSE IF item.intent = Str("inspect") /\ isMissingOrZone(item)
       THEN [acc EXCEPT !.list[i] = item, !.aborted = TRUE]
       ELSE Fuse([acc EXCEPT !.list[i] = item], i + 1)

\* The fusion loop over the candidates list with the stored context p
Fusion(p, list) ==
  Fuse([parameters |-> p, list |-> list, aborted |-> FALSE], 1)

\* The query a worker is started for: the resource kind as the dispatcher
\* reads it
Query(item, linesCount) ==
  [resource |-> item.resource[1], namespace |-> item.namespace,
   identifier |-> item.identifier, intent |-> item.intent,
   lines |-> linesCount]

----------------------------------------------------------------------------
(* State *)

Init ==
  /\ pc = "idle"
  /\ paramsList = <<>>
  /\ script = <<>>
  /\ task = <<>>
  /\ activeMcpServers = {}
  /\ now = 0
  /\ results = <<>>
  /\ thrown = NoError
  /\ shown = <<>>
  /\ summary = <<>>
  /\ parameters = EmptyParameters
  /\ turn = NoTurn(EmptyParameters)
  /\ lastToolResult = NoSnapshot
  /\ overlapping = 0
  /\ rlLine = <<>>
  /\ lastSigintTime = 0
  /\ interrupts = 0
  /\ said = ""
  /\ host = [state |-> "running", shutdownAt |-> 0, exitedAt |-> 0,
             escalations |-> {}, killAfter |-> 0]

\* process.exit has not been called: the event loop still runs handlers
Running == host.state = "running"

Workers == DOMAIN task

Settled(i) == task[i].outcome # Pending

\* process.nextTick runs before any other event: a pending spawn 'error'
\* is delivered first
NoTickPending == \A i \in Workers : ~task[i].errPending

\* The continuation of an await runs as a microtask, before the next event:
\* once every promise of the join has resolved no event handler runs until
\* the line handler has finished
Quiet ==
  /\ NoTickPending
  /\ pc \in {"parallel", "legacy"} => \E i \in Workers : ~Settled(i)
  /\ pc # "joined"

\* paramsList.map(params => executeSingleMcpTask(params))
StartAll(list, scr, spawnFails, writeThrows) ==
  /\ paramsList' = list
  /\ script' = scr
  /\ task' = [i \in 1..Len(list) |->
                executeSingleMcpTask(list[i], spawnFails[i], writeThrows[i])]
  /\ activeMcpServers' = activeMcpServers \cup (1..Len(list))

\* A worker that was not spawned, or that was sent no request, writes
\* nothing
Answers(s, spawnFails, writeThrows) ==
  (spawnFails \/ writeThrows) => s = <<>>

\* runMcpTask(list) up to its await; the workers' outputs are drawn from
\* scripts and the faults from faults
runMcpTaskOf(list, scripts, faults) ==
  /\ Running
  /\ pc = "idle"
  /\ \E scr \in [1..Len(list) -> scripts], f \in faults :
       /\ \A i \in 1..Len(list) :
            Answers(scr[i], f[i].spawnFails, f[i].writeThrows)
       /\ StartAll(list, scr, [i \in 1..Len(list) |-> f[i].spawnFails],
                [i \in 1..Len(list) |-> f[i].writeThrows])
  /\ pc' = "parallel"
  /\ UNCHANGED <<now, results, thrown, shown, summary>>
  /\ UNCHANGED <<contextVars, shellVars>>

\* runMcpTask up to its await, for a batch of n tasks
runMcpTask(n) == runMcpTaskOf(Batch(n), BatchScripts, Faults(n))

\* runMcpTaskLegacy up to its await
runMcpTaskLegacy ==
  /\ Running
  /\ pc = "idle"
  /\ \E k \in 1..2, s \in SingleScripts,
        sf \in BOOLEAN, wt \in BOOLEAN :
       /\ Answers(s, sf, wt)
       /\ StartAll(<<[resource |-> Kinds[k]]>>, <<s>>, <<sf>>, <<wt>>)
  /\ pc' = "legacy"
  /\ UNCHANGED <<now, results, thrown, shown, summary>>
  /\ UNCHANGED <<contextVars, shellVars>>

\* stdout 'data': a chunk of the worker's output arrives.  delivered counts
\* the chunks appended to responseData; a chunk that arrives once
\* hasResponded is set is dropped by the handler.  The chunks that arrive
\* after 'exit' all are: they are counted in unread.
OnStdoutData(i) ==
  /\ Running
  /\ i \in Workers
  /\ Quiet
  /\ task[i].proc = "running"
  /\ task[i].delivered < Len(script[i])
  /\ task' = [task EXCEPT ![i] =
                [StdoutHandler(@, script[i][@.delivered + 1])
                   EXCEPT !.delivered =
                            IF task[i].hasResponded THEN @ ELSE @ + 1]]
  /\ UNCHANGED <<pc, paramsList, script, activeMcpServers, now, results,
                 thrown, shown, summary>>
  /\ UNCHANGED <<contextVars, shellVars>>

\* 'error': the process could not be spawned; no 'exit' follows
OnError(i) ==
  /\ Running
  /\ i \in Workers
  /\ task[i].errPending
  /\ task' = [task EXCEPT ![i] = [ErrorHandler(@) EXCEPT !.errPending = FALSE]]
  /\ UNCHANGED <<pc, paramsList, script, activeMcpServers, now, results,
                 thrown, shown, summary>>
  /\ UNCHANGED <<contextVars, shellVars>>

\* OnExit that deregisters only a worker whose task is still pending
OnExitKeepsSettled(i, code, written) ==
  /\ Running
  /\ i \in Workers
  /\ Quiet
  /\ task[i].proc = "running"
  /\ IF task[i].killed THEN code = "null" ELSE code \in ExitCodes
  /\ IF task[i].hasResponded THEN written = task[i].delivered
     ELSE written \in task[i].delivered..Len(script[i])
  /\ activeMcpServers' =
       IF task[i].hasResponded THEN activeMcpServers
       ELSE activeMcpServers \ {i}
  /\ task' = [task EXCEPT ![i] =
                [ExitHandler(@, code)
                   EXCEPT !.proc = "exited", !.exitCode = code,
                          !.unread = written - task[i].delivered,
                          !.events = IF task[i].hasResponded THEN @
                                     ELSE Append(@, "deregister")]]
  /\ UNCHANGED <<pc, paramsList, script, now, results, thrown, shown, summary>>
  /\ UNCHANGED <<contextVars, shellVars>>

\* 'exit': both handlers, in registration order.  written is how many
\* chunks the process had written when it ended, which matters if the
\* exit handler settles the task.
OnExit(i, code, written) ==
  /\ Running
  /\ i \in Workers
  /\ Quiet
  /\ task[i].proc = "running"
  \* a process that was sent SIGTERM ends by it; its task has settled and
  \* the exit handler ignores the code
  /\ IF task[i].killed THEN code = "null" ELSE code \in ExitCodes
  /\ IF task[i].hasResponded THEN written = task[i].delivered
     ELSE written \in task[i].delivered..Len(script[i])
  /\ activeMcpServers' = activeMcpServers \ {i}
  /\ task' = [task EXCEPT ![i] =
                [ExitHandler(@, code)
                   EXCEPT !.proc = "exited", !.exitCode = code,
                          !.unread = written - task[i].delivered,
                          !.events = Append(@, "deregister")]]
  /\ UNCHANGED <<pc, paramsList, script, now, results, thrown, shown, summary>>
  /\ UNCHANGED <<contextVars, shellVars>>

\* OnTimeout that terminates every live worker
OnTimeoutKillsAll(i) ==
  /\ Running
  /\ i \in Workers
  /\ Quiet
  /\ task[i].timer = "armed"
  /\ now >= task[i].deadline
  /\ task' = [j \in Workers |->
                IF j = i THEN [TimeoutHandler(task[j]) EXCEPT !.timer = "fired"]
                ELSE Kill(task[j])]
  /\ UNCHANGED <<pc, paramsList, script, activeMcpServers, now, results,
                 thrown, shown, summary>>
  /\ UNCHANGED <<contextVars, shellVars>>

\* The 30 second timer of task i fires
OnTimeout(i) ==
  /\ Running
  /\ i \in Workers
  /\ Quiet
  /\ task[i].timer = "armed"
  /\ now >= task[i].deadline
  /\ task' = [task EXCEPT ![i] = [TimeoutHandler(@) EXCEPT !.timer = "fired"]]
  /\ UNCHANGED <<pc, paramsList, script, activeMcpServers, now, results,
                 thrown, shown, summary>>
  /\ UNCHANGED <<contextVars, shellVars>>

\* Time passes, but not beyond the deadline of an armed timer
Armed == {i \in Workers : task[i].timer = "armed"}

Tick ==
  /\ Running
  /\ Quiet
  /\ Armed # {}
  /\ \A i \in Armed : now < task[i].deadline
  /\ LET first == CHOOSE d \in {task[i].deadline : i \in Armed} :
                    \A i \in Armed : d <= task[i].deadline
     IN  now' = Min(now + TickStep, first)
  /\ UNCHANGED <<pc, paramsList, script, task, activeMcpServers, results,
                 thrown, shown, summary>>
  /\ UNCHANGED <<contextVars, shellVars>>

----------------------------------------------------------------------------
(* Joining and display *)

\* JoinAll that resumes on the first settled promise
JoinFirst ==
  /\ Running
  /\ pc = "parallel"
  /\ NoTickPending
  /\ \E i \in Workers : Settled(i)
  /\ results' = [i \in 1..Len(paramsList) |-> task[i].outcome]
  /\ pc' = "joined"
  /\ UNCHANGED <<paramsList, script, task, activeMcpServers, now, thrown,
                 shown, summary>>
  /\ UNCHANGED <<contextVars, shellVars>>

\* await Promise.all(promises): one outcome per promise, in batch order
JoinAll ==
  /\ Running
  /\ pc = "parallel"
  /\ NoTickPending
  /\ \A i \in Workers : Settled(i)
  /\ results' = [i \in 1..Len(paramsList) |-> task[i].outcome]
  /\ pc' = "joined"
  /\ UNCHANGED <<paramsList, script, task, activeMcpServers, now, thrown,
                 shown, summary>>
  /\ UNCHANGED <<contextVars, shellVars>>

ErrorTruthy(e) == e.kind # "none"
ResultTruthy(r) == r.tag = "value" /\ Truthy(r.value)

\* The content texts that JSON.parse or the renderer rejects
Undecodable == {<<"t2">>}

\* One pass of the display loop of displayAggregatedResults: the error and
\* the missing result are shown inline; a result with content is decoded and
\* rendered inside the try, and what is thrown there is caught and shown as
\* a parse failure; a result without content is shown as it is
Row(o) ==
  IF ErrorTruthy(o.error) THEN "error"
  ELSE IF ~ResultTruthy(o.result) THEN "nodata"
  ELSE LET content == GetField(o.result.value, "content") IN
       IF ~Truthy(content) THEN "novalid"
       ELSE IF content \in Undecodable THEN "unparsed"
       ELSE "rendered"

priority ==
  [cluster |-> 1, node |-> 2, account |-> 3, debt |-> 4, devbox |-> 5,
   objectstorage |-> 6, certificate |-> 7, cronjob |-> 8, pods |-> 9,
   ingress |-> 10, event |-> 11, quota |-> 12]

UnknownPriority == 999

\* priority[resource] || 999
PriorityOf(r) == IF r \in DOMAIN priority THEN priority[r] ELSE UnknownPriority

\* An insertion that puts an outcome before the outcomes of equal priority
RECURSIVE InsertBeforeEqual(_, _)
InsertBeforeEqual(sorted, o) ==
  IF sorted = <<>> THEN <<o>>
  ELSE IF PriorityOf(o.resource) <= PriorityOf(Head(sorted).resource)
       THEN <<o>> \o sorted
       ELSE <<Head(sorted)>> \o InsertBeforeEqual(Tail(sorted), o)

\* Array.prototype.sort with (a, b) => priorityA - priorityB: a stable sort
RECURSIVE InsertByPriority(_, _)
InsertByPriority(sorted, o) ==
  IF sorted = <<>> THEN <<o>>
  ELSE IF PriorityOf(o.resource) < PriorityOf(Head(sorted).resource)
       THEN <<o>> \o sorted
       ELSE <<Head(sorted)>> \o InsertByPriority(Tail(sorted), o)

RECURSIVE SortByPriority(_)
SortByPriority(rs) ==
  IF rs = <<>> THEN <<>>
  ELSE InsertByPriority(SortByPriority(SubSeq(rs, 1, Len(rs) - 1)),
                        rs[Len(rs)])

\* A display loop that is left at the first outcome whose content does not
\* decode
RowsUntilThrow(sortedResults) ==
  LET bad == {k \in DOMAIN sortedResults :
                Row(sortedResults[k]) = "unparsed"}
      last == IF bad = {} THEN Len(sortedResults)
              ELSE CHOOSE k \in bad : \A h \in bad : k <= h
  IN  [k \in 1..last |->
         [resource |-> sortedResults[k].resource,
          row |-> Row(sortedResults[k])]]

\* The display loop: one row for every outcome, in the order of the array;
\* the try and its catch are inside the loop
Rows(sortedResults) ==
  [k \in 1..Len(sortedResults) |->
     [resource |-> sortedResults[k].resource, row |-> Row(sortedResults[k])]]

\* tryParseJson(result?.content?.[0]?.text): undefined without a content,
\* the decoded data, or the text itself when it does not decode
tryParseJson(result) ==
  LET content == IF result.tag = "value"
                 THEN GetField(result.value, "content") ELSE <<>>
  IN  IF ~Truthy(content) THEN [kind |-> "undefined", text |-> <<>>]
      ELSE IF content \in Undecodable THEN [kind |-> "text", text |-> content]
      ELSE [kind |-> "json", text |-> content]

\* The entry of the snapshot for one outcome
SnapshotEntry(o) ==
  [resource |-> o.resource, data |-> tryParseJson(o.result),
   error |-> o.error]

\* What JSON.parse makes of a content text, as far as the display looks at
\* it: whether it has a manifest, the length of its events array and the
\* length of another list the display knows (pods, nodes, ...), None when
\* the field is missing
Decoded(content) ==
  IF content = <<"man">>
  THEN [manifest |-> TRUE, events |-> None, list |-> None]
  ELSE IF content = <<"ev2">>
  THEN [manifest |-> FALSE, events |-> <<2>>, list |-> None]
  ELSE IF content = <<"pods2">>
  THEN [manifest |-> FALSE, events |-> None, list |-> <<2>>]
  ELSE [manifest |-> FALSE, events |-> None, list |-> None]

\* What one decoded payload adds to totalFound: the inspect test
\* data.manifest || Array.isArray(data.events) comes first and counts one,
\* then the lists count their items; the event list test comes after both
FoundIn(data) ==
  IF data.manifest \/ data.events # None THEN 1
  ELSE IF data.list # None THEN data.list[1]
  ELSE IF data.events # None THEN data.events[1]
  ELSE 0

\* What one outcome adds to totalFound
Found(o) ==
  IF Row(o) = "rendered"
  THEN FoundIn(Decoded(GetField(o.result.value, "content")))
  ELSE 0

\* let totalFound = 0 and the additions of the display loop
RECURSIVE totalFound(_)
totalFound(sortedResults) ==
  IF sortedResults = <<>> THEN 0
  ELSE Found(Head(sortedResults)) + totalFound(Tail(sortedResults))

\* The line handler after its await of runMcpTask: it stores the snapshot
\* of the results, in batch order, and calls
\* displayAggregatedResults(results), which sorts results in place, shows
\* one row per outcome and then the summary
displayAggregatedResults ==
  /\ Running
  /\ pc = "joined"
  /\ lastToolResult' = [k \in 1..Len(results) |-> SnapshotEntry(results[k])]
  /\ results' = SortByPriority(results)
  /\ shown' = Rows(results')
  /\ summary' = Append(summary, [totalFound |-> totalFound(results'),
                                  types |-> Len(results')])
  /\ pc' = "done"
  /\ UNCHANGED <<paramsList, script, task, activeMcpServers, now, thrown>>
  /\ UNCHANGED <<parameters, turn, overlapping, shellVars>>

\* displayResults(result) for a truthy result: a content is decoded and
\* rendered, or shown raw when it does not decode; a result without content
\* is shown as it is
displayResults(result) ==
  LET content == GetField(result.value, "content") IN
  IF ~Truthy(content) THEN "novalid"
  ELSE IF content \in Undecodable THEN "unparsed"
  ELSE "rendered"

\* runMcpTaskLegacy after its await and the line handler after it: a
\* failure is thrown to the line handler, whose catch prints it; otherwise a
\* truthy result is displayed and the handler stores the snapshot
LegacyReturn ==
  /\ Running
  /\ pc = "legacy"
  /\ NoTickPending
  /\ Settled(1)
  /\ LET o == task[1].outcome IN
       IF ErrorTruthy(o.error)
       THEN /\ thrown' = o.error
            /\ shown' = <<[resource |-> o.resource, row |-> "error"]>>
            /\ results' = results
            /\ UNCHANGED lastToolResult
       ELSE /\ thrown' = thrown
            /\ shown' = IF ResultTruthy(o.result)
                        THEN <<[resource |-> o.resource,
                                row |-> displayResults(o.result)]>>
                        ELSE <<>>
            /\ results' = <<o>>
            /\ lastToolResult' = <<SnapshotEntry(o)>>
  /\ pc' = "done"
  /\ UNCHANGED <<paramsList, script, task, activeMcpServers, now, summary>>
  /\ UNCHANGED <<parameters, turn, overlapping, shellVars>>

----------------------------------------------------------------------------
(* The line handler, the interrupt handler and cleanupAndExit *)

\* Date.now(), in seconds: the clock of the process counts from 1970, so
\* its first reading is far beyond the repeat window
Epoch == 1000 * SigintWindow
DateNow == Epoch + now

\* cleanupAndExit(code): SIGTERM to every registered worker that was not yet
\* sent a signal, a timer of KillGrace seconds for SIGKILL each, and
\* process.exit at once.  The timers end with the process: escalations are
\* the ones that were armed.  kill() sends nothing to a process that never
\* started and leaves its killed flag unset.
cleanupAndExit ==
  /\ task' = [i \in Workers |->
                IF i \in activeMcpServers /\ ~task[i].killed
                THEN Kill(task[i]) ELSE task[i]]
  /\ host' = [state |-> "exited", shutdownAt |-> DateNow,
              exitedAt |-> DateNow,
              escalations |-> {i \in activeMcpServers : ~task[i].killed},
              killAfter |-> DateNow + KillGrace]
  /\ UNCHANGED <<pc, paramsList, script, activeMcpServers, now, results,
                 thrown, shown, summary>>

\* A key is pressed: rl.line grows
Type(w) ==
  /\ Running
  /\ Quiet
  /\ Len(rlLine) < MaxTyped
  /\ rlLine' = Append(rlLine, w)
  /\ UNCHANGED <<dispatchVars, contextVars, lastSigintTime, interrupts, said,
                 host>>

\* The tokens that match \d+, with what parseInt makes of them
Digits == [w \in {"5", "0"} |-> IF w = "5" THEN 5 ELSE 0]

\* input.replace(/--raw/g, '').replace(/--lines(?:\s+\d+)?/g, '').trim()
RECURSIVE StripFlags(_)
StripFlags(line) ==
  IF line = <<>> THEN <<>>
  ELSE IF Head(line) = "--raw" THEN StripFlags(Tail(line))
  ELSE IF Head(line) = "--lines"
  THEN IF Len(line) > 1 /\ line[2] \in DOMAIN Digits
       THEN StripFlags(Tail(Tail(line)))
       ELSE StripFlags(Tail(line))
  ELSE <<Head(line)>> \o StripFlags(Tail(line))

\* parseInt(linesMatch[1] || '30') for the first --lines of the input: the
\* digits that follow it, or 30 when none do
LinesValue(line) ==
  LET i == CHOOSE k \in 1..Len(line) :
             line[k] = "--lines" /\ \A j \in 1..(k - 1) : line[j] # "--lines"
  IN  IF i < Len(line) /\ line[i + 1] \in DOMAIN Digits
      THEN Digits[line[i + 1]]
      ELSE DefaultLines

LinesFlagUnchecked(line) ==
  IF \A k \in 1..Len(line) : line[k] # "--lines"
  THEN [linesCount |-> None, warned |-> FALSE]
  ELSE [linesCount |-> <<LinesValue(line)>>, warned |-> FALSE]

\* The --lines flag of an input: linesCount, None when the flag is absent,
\* and whether the warning is printed
LinesFlag(line) ==
  IF \A k \in 1..Len(line) : line[k] # "--lines"
  THEN [linesCount |-> None, warned |-> FALSE]
  ELSE IF LinesValue(line) > 0
  THEN [linesCount |-> <<LinesValue(line)>>, warned |-> FALSE]
  ELSE [linesCount |-> <<DefaultLines>>, warned |-> TRUE]

IsQuit(input) ==
  Len(input) = 1 /\ toLowerCase(input[1]) \in {"exit", "quit"}

\* rl.on('line'): the handler up to its first await.  An empty line only
\* prompts again, exit and quit shut down, any other line starts a turn by
\* updating the Session Context.  The interface is not paused while a
\* handler is suspended, so a line that arrives then starts its handler at
\* once: it updates the Session Context and is suspended at the extractor
\* beside the turn in progress.
OnLine(line) ==
  /\ Running
  /\ Quiet
  /\ rlLine' = <<>>
  /\ UNCHANGED <<lastSigintTime, interrupts>>
  /\ IF line = <<>>
     THEN UNCHANGED <<dispatchVars, contextVars, said, host>>
     ELSE IF IsQuit(line)
     THEN /\ said' = "Goodbye!"
          /\ cleanupAndExit
          /\ UNCHANGED contextVars
     ELSE /\ pc \in {"idle", "extracting", "parallel", "legacy"}
          /\ pc # "idle" => overlapping < MaxOverlap
          /\ LET u == updateParameters(parameters, StripFlags(line)) IN
               /\ parameters' = u.parameters
               /\ lastToolResult' =
                    SnapshotAfterUpdate(lastToolResult, u.isScopeChanged)
               /\ IF pc = "idle"
                  THEN /\ turn' = [NoTurn(parameters) EXCEPT
                                    !.input = line,
                                    !.linesCount = LinesFlag(line).linesCount,
                                    !.warned = LinesFlag(line).warned,
                                    !.isScopeChanged = u.isScopeChanged,
                                    !.updated = u.parameters,
                                    !.context = lastToolResult']
                       /\ pc' = "extracting"
                       /\ UNCHANGED overlapping
                  ELSE /\ overlapping' = overlapping + 1
                       /\ UNCHANGED <<pc, turn>>
          /\ UNCHANGED <<paramsList, script, task, activeMcpServers, now,
                         results, thrown, shown, summary, said, host>>

\* A handler that started while another turn was suspended ends without a
\* dispatch: the extractor returned nothing, or threw, and the handler
\* prompts
OverlappedPrompt ==
  /\ Running
  /\ Quiet
  /\ overlapping > 0
  /\ overlapping' = overlapping - 1
  /\ UNCHANGED <<dispatchVars, parameters, turn, lastToolResult, shellVars>>

\* The turn ends without a dispatch: the extractor returned nothing, or
\* threw, and the handler prompts again
Prompt ==
  /\ Running
  /\ pc = "extracting"
  /\ pc' = "idle"
  /\ turn' = NoTurn(parameters)
  /\ UNCHANGED <<paramsList, script, task, activeMcpServers, now, results,
                 thrown, shown, summary, parameters, lastToolResult,
                 overlapping, shellVars>>

\* parseRawInput that asks for one parameter only
RejectsEmptyOnly(rawArgs) == Len(rawArgs) < 1

\* if (rawArgs.length < 2) throw: the extractor's test before it builds the
\* request to its backend
Rejects(rawArgs) == Len(rawArgs) < 2

\* The line handler of an input that parseRawInput does not pass on to its
\* backend.  An enabled extractor throws, the handler's catch shows the
\* error and the handler prompts; a disabled extractor returns null before
\* it looks at the input, and the handler shows the guidance and prompts.
OnRejected(enabled) ==
  /\ Running
  /\ pc = "extracting"
  /\ Rejects(Split(StripFlags(turn.input)))
  /\ turn' = [turn EXCEPT !.errors =
                IF enabled THEN <<"Expected at least 2 parameters">>
                ELSE <<"Invalid input">>]
  /\ pc' = "idle"
  /\ UNCHANGED <<paramsList, script, task, activeMcpServers, now, results,
                 thrown, shown, summary, parameters, lastToolResult,
                 overlapping, shellVars>>

\* The line handler from the extractor's answer to its next await or to its
\* end.  raw is the array the backend answered.  Without a valid candidate
\* the handler prints the guidance and prompts; an inspect candidate without
\* a usable identifier ends the fusion loop with the usage error and the
\* prompt; otherwise every fused candidate is started, one through
\* runMcpTaskLegacy and several through runMcpTask.  scr[i] is what the
\* worker of candidate i is going to write.
OnExtracted(raw, scr) ==
  /\ Running
  /\ pc = "extracting"
  /\ ~Rejects(Split(StripFlags(turn.input)))
  /\ LET f == Fusion(parameters, parseRawInput(raw))
         n == Len(f.list)
     IN  /\ parameters' = f.parameters
         /\ IF n = 0
            THEN /\ turn' = [turn EXCEPT !.raw = raw, !.answered = TRUE,
                                         !.errors = <<"Invalid input">>]
                 /\ pc' = "idle"
                 /\ UNCHANGED <<paramsList, script, task, activeMcpServers>>
            ELSE IF f.aborted
            THEN /\ turn' = [turn EXCEPT !.raw = raw, !.answered = TRUE,
                                         !.fused = f.list,
                                         !.errors = <<"Usage">>]
                 /\ pc' = "idle"
                 /\ UNCHANGED <<paramsList, script, task, activeMcpServers>>
            ELSE /\ turn' = [turn EXCEPT !.raw = raw, !.answered = TRUE,
                                         !.fused = f.list,
                                         !.dispatched = f.parameters]
                 /\ pc' = IF n = 1 THEN "legacy" ELSE "parallel"
                 /\ StartAll([i \in 1..n |-> Query(f.list[i], turn.linesCount)],
                             [i \in 1..n |-> scr[i]],
                             [i \in 1..n |-> FALSE], [i \in 1..n |-> FALSE])
  /\ UNCHANGED <<now, results, thrown, shown, summary, lastToolResult,
                 overlapping, shellVars>>

\* rl.prompt() at the end of the line handler: the shell waits for the
\* next line.  The next turn is followed only once the workers of this one
\* are gone; what the turn displayed is wiped from the record.
Prompted ==
  /\ Running
  /\ pc = "done"
  /\ activeMcpServers = {}
  /\ pc' = "idle"
  /\ shown' = <<>>
  /\ summary' = <<>>
  /\ thrown' = NoError
  /\ UNCHANGED <<paramsList, script, task, activeMcpServers, now, results>>
  /\ UNCHANGED <<contextVars, shellVars>>

\* OnSigint that takes a repeat after exactly SigintWindow seconds for a
\* double press
OnSigintInclusive ==
  /\ Running
  /\ Quiet
  /\ interrupts < MaxInterrupts
  /\ interrupts' = interrupts + 1
  /\ IF Len(rlLine) > 0
     THEN /\ said' = "^C"
          /\ rlLine' = <<>>
          /\ UNCHANGED <<dispatchVars, contextVars, lastSigintTime, host>>
     ELSE LET timeSinceLastSigint == DateNow - lastSigintTime IN
          /\ lastSigintTime' = DateNow
          /\ IF timeSinceLastSigint <= SigintWindow
             THEN /\ said' = "Exiting..."
                  /\ cleanupAndExit
                  /\ UNCHANGED <<contextVars, rlLine>>
             ELSE /\ said' = "Press Ctrl+C again"
                  /\ UNCHANGED <<dispatchVars, contextVars, rlLine, host>>

\* OnSigint that records the time of the interrupt before it looks at the
\* line
OnSigintStampsFirst ==
  /\ Running
  /\ Quiet
  /\ interrupts < MaxInterrupts
  /\ interrupts' = interrupts + 1
  /\ lastSigintTime' = DateNow
  /\ IF Len(rlLine) > 0
     THEN /\ said' = "^C"
          /\ rlLine' = <<>>
          /\ UNCHANGED <<dispatchVars, contextVars, host>>
     ELSE LET timeSinceLastSigint == DateNow - lastSigintTime IN
          /\ IF timeSinceLastSigint < SigintWindow
             THEN /\ said' = "Exiting..."
                  /\ cleanupAndExit
                  /\ UNCHANGED <<contextVars, rlLine>>
             ELSE /\ said' = "Press Ctrl+C again"
                  /\ UNCHANGED <<dispatchVars, contextVars, rlLine, host>>

\* rl.on('SIGINT')
OnSigint ==
  /\ Running
  /\ Quiet
  /\ interrupts < MaxInterrupts
  /\ interrupts' = interrupts + 1
  /\ IF Len(rlLine) > 0
     THEN /\ said' = "^C"
          /\ rlLine' = <<>>
          /\ UNCHANGED <<dispatchVars, contextVars, lastSigintTime, host>>
     ELSE LET timeSinceLastSigint == DateNow - lastSigintTime IN
          /\ lastSigintTime' = DateNow
          /\ IF timeSinceLastSigint < SigintWindow
             THEN /\ said' = "Exiting..."
                  /\ cleanupAndExit
                  /\ UNCHANGED <<contextVars, rlLine>>
             ELSE /\ said' = "Press Ctrl+C again"
                  /\ UNCHANGED <<dispatchVars, contextVars, rlLine, host>>

\* Time passes while the shell waits, but not beyond the deadline of an
\* armed timer
Wait ==
  /\ Running
  /\ Quiet
  /\ now < MaxWait
  /\ \A i \in Armed : now < task[i].deadline
  /\ now' = now + 1
  /\ UNCHANGED <<pc, paramsList, script, task, activeMcpServers, results,
                 thrown, shown, summary, contextVars, shellVars>>

----------------------------------------------------------------------------
(* Specifications *)

Next ==
  \/ \E n \in 2..MaxBatch : runMcpTask(n)
  \/ runMcpTaskLegacy
  \/ \E i \in Workers : OnStdoutData(i)
  \/ \E i \in Workers : OnError(i)
  \/ \E i \in Workers, code \in ExitCodes \cup {"null"}, written \in 0..MaxChunks :
       OnExit(i, code, written)
  \/ \E i \in Workers : OnTimeout(i)
  \/ Tick
  \/ JoinAll
  \/ displayAggregatedResults
  \/ LegacyReturn

Spec == Init /\ [][Next]_vars

\* The lines a user submits: up to MaxTokens words, or a flag alone
Lines ==
  {<<"--raw">>} \cup
  UNION {[1..n -> {Words[k] : k \in DOMAIN Words}] : n \in 1..MaxTokens}

\* The turns of a session up to the update of the Session Context, one turn
\* at a time
NextContext ==
  \/ pc = "idle" /\ \E line \in Lines : OnLine(line)
  \/ Prompt

ContextSpec == Init /\ [][NextContext]_vars

\* The shell while a batch runs: keys, lines, interrupts and the passing of
\* time, during the first MaxWait seconds
NextShell ==
  \/ runMcpTask(2)
  \/ \E i \in Workers : OnStdoutData(i)
  \/ \E i \in Workers : OnError(i)
  \/ \E i \in Workers, code \in ExitCodes \cup {"null"}, written \in 0..MaxChunks :
       OnExit(i, code, written)
  \/ JoinAll
  \/ displayAggregatedResults
  \/ Type("exit")
  \/ OnLine(rlLine)
  \/ OnSigint
  \/ Wait

\* The candidates a backend answer is made of
Item(namespace, resource, identifier, intent) ==
  [namespace |-> namespace, resource |-> resource, identifier |-> identifier,
   intent |-> intent]

RawItems ==
  { Item(Str("ns-b"), Str("pods"), Str("HZH"), None),
    Item(Str("ns-b"), Str("pods"), Str("my-app"), None),
    Item(None, Str("node"), Str("my-app"), None),
    Item(Str("ns-a"), Str("node"), Str("my-app"), Str("list")),
    Item(Str("ns-b"), Str("pods"), Str("my-app"), Str("inspect")),
    Item(Str("ns-b"), Str("pods"), Str("HZH"), Str("inspect")),
    Item(Str("ns-b"), Str("pods"), None, Str("inspect")),
    Item(None, Str("pods"), Str("my-app"), None) }

RawAnswers == UNION {[1..n -> RawItems] : n \in 0..MaxCandidates}

\* The lines typed in the turns whose candidates are fused
FusionLines ==
  { <<"bja", "pods">>, <<"hzh", "ns-a">>, <<"devbox", "my-app">>,
    <<"describe", "pods">> }

\* Turns from the line to the dispatch of the fused candidates, the workers
\* of the one dispatch to their join and display, and interrupts
NextTurn ==
  \/ pc = "idle" /\ \E line \in FusionLines : OnLine(line)
  \/ pc = "extracting" /\ \E raw \in RawAnswers :
       OnExtracted(raw, [i \in 1..Len(raw) |-> <<>>])
  \/ \E i \in Workers : OnExit(i, "0", Len(script[i]))
  \/ JoinAll
  \/ displayAggregatedResults
  \/ LegacyReturn
  \/ OnSigint

TurnSpec == Init /\ [][NextTurn]_vars

\* Batches in which kinds outside the priority table, kinds of equal rank
\* and kinds out of priority order occur
DisplayBatches ==
  { <<"cert", "pods">>, <<"obs", "cert">>, <<"pods", "cluster", "pods">>,
    <<"obs", "pods", "cert">>, <<"cluster", "pods", "cert">>,
    <<"cert", "obs", "cluster">> }

\* What a worker of such a batch writes: nothing, a result whose content
\* decodes, or a result whose content does not
DisplayScripts ==
  { <<>>, <<ResultLine("t1") \o <<NL>>>>, <<ResultLine("t2") \o <<NL>>>> }

NoFaults(n) == {[i \in 1..n |-> [spawnFails |-> FALSE, writeThrows |-> FALSE]]}

\* A batch from its dispatch to its display, the workers settling in any
\* order
NextDisplay ==
  \/ \E kinds \in DisplayBatches :
       runMcpTaskOf([i \in 1..Len(kinds) |-> [resource |-> kinds[i]]],
                    DisplayScripts, NoFaults(Len(kinds)))
  \/ \E i \in Workers : OnStdoutData(i)
  \/ \E i \in Workers, code \in ExitCodes \cup {"null"} :
       OnExit(i, code, Len(script[i]))
  \/ JoinAll
  \/ displayAggregatedResults

DisplaySpec == Init /\ [][NextDisplay]_vars

\* The lines and the backend's answers of the turns that follow one
\* another: a line for either zone and one that names no scope; no
\* candidate, one, or two
SnapshotLines ==
  { <<"hzh", "pods">>, <<"bja", "pods">>, <<"describe", "pods">> }

SnapshotAnswers ==
  { <<>>,
    <<Item(Str("ns-b"), Str("pods"), Str("my-app"), None)>>,
    <<Item(Str("ns-b"), Str("pods"), Str("my-app"), None),
      Item(None, Str("node"), Str("my-app"), None)>> }

\* Turn after turn, each one finished before the next line is entered
NextSnapshot ==
  \/ pc = "idle" /\ \E line \in SnapshotLines : OnLine(line)
  \/ pc = "extracting" /\ \E raw \in SnapshotAnswers :
       \E scr \in [1..Len(raw) -> BatchScripts] : OnExtracted(raw, scr)
  \/ \E i \in Workers : OnStdoutData(i)
  \/ \E i \in Workers, code \in ExitCodes \cup {"null"} :
       OnExit(i, code, Len(script[i]))
  \/ JoinAll
  \/ displayAggregatedResults
  \/ LegacyReturn
  \/ Prompted

SnapshotSpec == Init /\ [][NextSnapshot]_vars

\* One query, run by the direct path or run as a batch of one by the
\* aggregated path, with the same outputs and faults
NextPath ==
  \/ runMcpTaskLegacy
  \/ \E k \in 1..2 :
       runMcpTaskOf(<<[resource |-> Kinds[k]]>>, SingleScripts, Faults(1))
  \/ \E i \in Workers : OnStdoutData(i)
  \/ \E i \in Workers : OnError(i)
  \/ \E i \in Workers, code \in ExitCodes \cup {"null"},
        written \in 0..MaxChunks : OnExit(i, code, written)
  \/ \E i \in Workers : OnTimeout(i)
  \/ Tick
  \/ JoinAll
  \/ displayAggregatedResults
  \/ LegacyReturn

PathSpec == Init /\ [][NextPath]_vars

\* Turns whose lines arrive at any time, also while a turn is suspended
NextOverlap ==
  \/ \E line \in FusionLines : OnLine(line)
  \/ pc = "extracting" /\ \E raw \in RawAnswers :
       OnExtracted(raw, [i \in 1..Len(raw) |-> <<>>])
  \/ OverlappedPrompt
  \/ \E i \in Workers : OnExit(i, "0", Len(script[i]))
  \/ JoinAll
  \/ displayAggregatedResults
  \/ LegacyReturn

OverlapSpec == Init /\ [][NextOverlap]_vars

ShellSpec == Init /\ [][NextShell]_vars

\* A worker that was sent a termination signal eventually exits
KilledExit(i) ==
  /\ i \in Workers
  /\ task[i].killed
  /\ \E code \in ExitCodes \cup {"null"}, written \in 0..MaxChunks : OnExit(i, code, written)

\* The event loop runs every due callback, and time passes
FairSpec ==
  /\ Spec
  /\ WF_vars(Tick)
  /\ WF_vars(JoinAll)
  /\ WF_vars(displayAggregatedResults)
  /\ WF_vars(LegacyReturn)
  /\ \A i \in 1..(MaxBatch + 1) :
       WF_vars(OnTimeout(i)) /\ WF_vars(OnError(i)) /\ WF_vars(KilledExit(i))

----------------------------------------------------------------------------
(* Properties *)

Count(seq, e) == Cardinality({k \in 1..Len(seq) : seq[k] = e})

IsSuccess(o) == o.state = "resolved" /\ o.error = NoError
IsFailure(o) == o.state = "resolved" /\ o.error # NoError

\* C1: a task settles exactly once.  resolve is called at most once per
\* task, hasResponded is set exactly when the task has an outcome, and no
\* step of any event handler (data, exit, error, timeout) changes the
\* outcome of a task that has one.
SettlesOnce ==
  /\ [](\A i \in Workers :
          /\ task[i].resolveCalls <= 1
          /\ task[i].hasResponded <=> Settled(i)
          /\ Settled(i) <=> task[i].resolveCalls = 1)
  /\ [][\A i \in Workers :
          Settled(i) => /\ task'[i].outcome = task[i].outcome
                        /\ task'[i].hasResponded
                        /\ task'[i].resolveCalls = task[i].resolveCalls]_vars

\* A task settled by its result line whose worker's exit was seen later
SettledThenExited ==
  \E i \in Workers :
    /\ task[i].outcome.result.tag = "value"
    /\ task[i].proc = "exited"
    /\ task[i].resolveCalls = 1

\* C2: while runMcpTask waits every task of the batch has been started;
\* when it has returned every task has settled and results holds exactly
\* one outcome per query, the outcome of task k at position k.
JoinsInBatchOrder ==
  /\ pc = "parallel" =>
       /\ Workers = 1..Len(paramsList)
       /\ \A k \in Workers : Head(task[k].events) = "register"
  /\ pc = "joined" =>
       /\ Len(results) = Len(paramsList)
       /\ \A k \in 1..Len(paramsList) :
            /\ Settled(k)
            /\ results[k] = task[k].outcome
            /\ results[k].resource = paramsList[k].resource

\* A batch of three has joined with a timeout at position 1, an exit
\* failure at position 2 and a payload at position 3
JoinedMixed ==
  /\ pc = "joined"
  /\ Len(results) = 3
  /\ results[1].error.kind = "timeout"
  /\ results[2].error.kind = "exit"
  /\ results[3].result.tag = "value"

\* C3: a pending task is never past its deadline, and every dispatched
\* batch or single query is eventually joined and the turn completes.
EventuallyJoins ==
  /\ [](\A i \in Workers :
          ~Settled(i) => now <= task[i].deadline /\ task[i].timer = "armed")
  /\ (pc \in {"parallel", "legacy"}) ~> (pc = "done")

\* A batch of silent workers that completed by its timeouts
AllTimedOut ==
  /\ pc = "done"
  /\ Len(paramsList) = MaxBatch
  /\ \A i \in Workers : /\ script[i] = <<>>
                        /\ task[i].outcome.error.kind = "timeout"

\* C4: a step of one task's handler leaves every other task of the batch
\* as it was (outcome, signals sent to its worker, timer), a worker leaves
\* the live set only by its own exit, and a task whose worker writes no
\* decodable line never gets a payload and times out only at its deadline.
SiblingIsolation ==
  /\ [][pc = "parallel" /\ pc' = "parallel" =>
          /\ \A i \in Workers, j \in Workers :
               (i # j /\ task'[i] # task[i]) => task'[j] = task[j]
          /\ \A j \in Workers :
               (j \in activeMcpServers /\ j \notin activeMcpServers') =>
                 task'[j].proc # task[j].proc]_vars
  /\ [](\A i \in Workers :
          /\ script[i] = <<>> => task[i].outcome.result.tag # "value"
          /\ task[i].outcome.error.kind = "timeout" =>
               now = task[i].deadline)

\* Three tasks, worker 2 silent: task 2 has timed out, tasks 1 and 3 have
\* their payloads
StalledSecond ==
  /\ Len(paramsList) = 3
  /\ script[2] = <<>>
  /\ task[2].outcome = Failure(paramsList[2].resource, TimeoutError)
  /\ task[1].outcome.result.tag = "value"
  /\ task[3].outcome.result.tag = "value"

\* C5: the step in which the timer of a pending task fires happens at the
\* task's deadline, settles the task Failure(timeout) and sends its worker
\* SIGTERM; the timer of a task that settled otherwise is no longer armed,
\* and a timer firing on a settled task changes nothing.
TimeoutSettles ==
  /\ [][\A i \in Workers :
          (task[i].timer = "armed" /\ task'[i].timer = "fired") =>
            /\ now = task[i].deadline
            /\ task[i].deadline = TaskTimeout
            /\ IF ~task[i].hasResponded
               THEN /\ task'[i].outcome =
                         Failure(task[i].resource, TimeoutError)
                    /\ task'[i].signals = Append(task[i].signals, "SIGTERM")
                    /\ task'[i].killed
               ELSE /\ task'[i].outcome = task[i].outcome
                    /\ task'[i].signals = task[i].signals]_vars
  /\ [](\A i \in Workers :
          (Settled(i) /\ task[i].outcome.error.kind # "timeout") =>
            task[i].timer = "cleared")

\* A task that timed out, with the signal sent to its worker
TimedOutAndKilled ==
  \E i \in Workers :
    /\ task[i].outcome = Failure(task[i].resource, TimeoutError)
    /\ task[i].signals = <<"SIGTERM">>
    /\ now = task[i].deadline

\* The lines of buf that settle a task: framed, decodable, and carrying a
\* truthy error or result
DecisiveLines(buf) ==
  LET lines == SplitLines(Trim(buf))
  IN  {k \in 1..Len(lines) :
         /\ Framed(lines[k])
         /\ JsonOk(lines[k])
         /\ \/ Truthy(GetField(lines[k], "error"))
            \/ Truthy(GetField(lines[k], "result"))}

WroteOneResultLine(i, t) ==
  /\ script[i] = <<ResultLine(t) \o <<NL>>>>
  /\ task[i].proc = "exited"
  /\ task[i].delivered + task[i].unread = 1

\* C7: a worker that wrote one result line and then exited, its task
\* having settled without an error, has settled Success with that line's
\* payload, whichever of the data and exit events was seen first.
OneLineThenExit ==
  \A i \in Workers :
    (WroteOneResultLine(i, "t1") /\ IsSuccess(task[i].outcome)) =>
      task[i].outcome =
        Success(task[i].resource, Value(<<"{", "content", "t1", "}">>))

\* C8: the exit of a worker whose task is pending settles the task, a code
\* other than 0 as Failure carrying the code and the code 0 as Success with
\* a null payload; displayAggregatedResults shows a null payload as a "no
\* data" row.
ExitWithoutSettle ==
  /\ [][\A i \in Workers :
          (task[i].proc = "running" /\ task'[i].proc = "exited"
             /\ ~task[i].hasResponded) =>
            task'[i].outcome =
              IF task'[i].exitCode = "0"
              THEN Success(task[i].resource, Null)
              ELSE Failure(task[i].resource, ExitError(task'[i].exitCode))]_vars
  /\ []((pc = "done" /\ Len(paramsList) > 1) =>
          /\ Len(shown) = Len(results)
          /\ \A k \in 1..Len(results) :
               (results[k].error = NoError /\ results[k].result = Null) =>
                 shown[k] = [resource |-> results[k].resource,
                             row |-> "nodata"])

\* A displayed batch with a worker that exited with 0 and one that exited
\* with 1, both before their tasks had settled
ExitsDisplayed ==
  /\ pc = "done"
  /\ \E k \in 1..Len(shown), h \in 1..Len(shown) :
       /\ shown[k].row = "nodata" /\ results[k].result = Null
       /\ shown[h].row = "error" /\ results[h].error = ExitError("1")
       /\ \E i \in Workers : task[i].exitCode = "0" /\
                             task[i].outcome = results[k]

NoLeak ==
  \A i \in 1..MaxBatch :
    (i \in Workers /\ Settled(i)) ~> (i \notin activeMcpServers)

----------------------------------------------------------------------------
(* Shutdown and interrupts *)

Signalled(t, sig) == \E k \in DOMAIN t.signals : t.signals[k] = sig

\* C11: once the host has exited, every worker that was sent SIGTERM by the
\* shutdown and is still running was sent SIGKILL, and the host exited no
\* earlier than KillGrace seconds after the shutdown began.
ShutdownEscalates ==
  host.state = "exited" =>
    \A i \in host.escalations :
      task[i].proc = "running" =>
        /\ Signalled(task[i], "SIGKILL")
        /\ host.exitedAt >= host.killAfter

\* C12: once the host has exited the live-worker set is empty.
ShutdownEmptiesLiveSet ==
  host.state = "exited" => activeMcpServers = {}

\* C13: an interrupt on an empty line shuts down exactly when the previous
\* interrupt on an empty line was less than SigintWindow seconds ago; the
\* first interrupt of a session never does.  Otherwise it shows the hint,
\* records its time and leaves the dispatcher and the Session Context as
\* they were.
EmptyLineInterrupt ==
  [][(rlLine = <<>> /\ interrupts' = interrupts + 1) =>
       LET repeated == DateNow - lastSigintTime < SigintWindow IN
         /\ host'.state = "exited" <=> repeated
         /\ interrupts = 0 => host'.state = "running"
         /\ ~repeated =>
              /\ said' = "Press Ctrl+C again"
              /\ lastSigintTime' = DateNow
              /\ UNCHANGED <<dispatchVars, contextVars, rlLine, host>>]_vars

\* Three interrupts with workers registered: the last one shut down
RepeatedInterruptExits ==
  /\ host.state = "exited"
  /\ said = "Exiting..."
  /\ interrupts = 3
  /\ host.exitedAt >= Epoch + SigintWindow
  /\ activeMcpServers # {}

\* C14: an interrupt on a non-empty line clears the line and changes
\* nothing else: the host keeps running, and the time of the last
\* empty-line interrupt, the dispatcher and the Session Context stay as
\* they were.
NonEmptyLineInterrupt ==
  [][(rlLine # <<>> /\ interrupts' = interrupts + 1) =>
       /\ rlLine' = <<>>
       /\ UNCHANGED <<dispatchVars, contextVars, lastSigintTime, host>>]_vars

\* A typed line was cleared by an interrupt within the repeat window of an
\* earlier one, with workers registered
ClearedWithinWindow ==
  /\ said = "^C"
  /\ rlLine = <<>>
  /\ Running
  /\ lastSigintTime # 0
  /\ DateNow - lastSigintTime < SigintWindow
  /\ activeMcpServers # {}

----------------------------------------------------------------------------
(* Session Context *)

\* A turn has updated the Session Context: turn holds its line, the context
\* before it and the value updateParameters returned
Updated == pc = "extracting"

TurnTokens == Split(StripFlags(turn.input))

\* The positions of the tokens that are, in lower case, in S
Positions(tokens, S) ==
  {i \in DOMAIN tokens : toLowerCase(tokens[i]) \in S}

Last(P) == CHOOSE i \in P : \A j \in P : j <= i

\* The value the tokens give for a keyword field: the last token of its
\* class, in lower case
LastOfClass(tokens, S) ==
  IF \A i \in DOMAIN tokens : toLowerCase(tokens[i]) \notin S THEN None
  ELSE Str(toLowerCase(tokens[Last(Positions(tokens, S))]))

NsWords == {w \in {Words[k] : k \in DOMAIN Words} : StartsWithNs(toLowerCase(w))}

\* Whether the token at position i may be a name
MayBeName(tokens, i) ==
  /\ i \in DOMAIN tokens
  /\ toLowerCase(tokens[i]) \notin KNOWN_ZONES
  /\ ~StartsWithNs(toLowerCase(tokens[i]))
  /\ toLowerCase(tokens[i]) \notin IGNORED_KEYWORDS

\* The token after the last resource kind, if it may be a name
NameOf(tokens) ==
  IF \A i \in DOMAIN tokens : toLowerCase(tokens[i]) \notin KNOWN_RESOURCES
  THEN None
  ELSE \* the only element of the set binds the position once
       CHOOSE n \in {IF MayBeName(tokens, k + 1) THEN Str(tokens[k + 1]) ELSE None :
                      k \in {Last(Positions(tokens, KNOWN_RESOURCES))}} : TRUE

\* What the tokens say about the four fields
Summary(tokens) ==
  [zone |-> LastOfClass(tokens, KNOWN_ZONES),
   namespace |-> LastOfClass(tokens, NsWords),
   resource |-> LastOfClass(tokens, KNOWN_RESOURCES),
   name |-> NameOf(tokens)]

\* What the turn's tokens say about the four fields
OfTurn == CHOOSE r \in {Summary(tokens) : tokens \in {TurnTokens}} : TRUE

Fields == {"zone", "namespace", "resource", "name"}

\* C15: after a turn with a scope change every field holds the value of
\* this turn's tokens or is empty; from {zone hzh, namespace ns-a} the line
\* "bja" leaves {zone bja} and three empty fields.
ResetOnScopeChange ==
  (Updated /\ turn.isScopeChanged) =>
    /\ parameters = OfTurn
    /\ ( /\ turn.before.zone = Str("hzh")
         /\ turn.before.namespace = Str("ns-a")
         /\ turn.input = <<"bja">> )
       => parameters = [zone |-> Str("bja"), namespace |-> None,
                        resource |-> None, name |-> None]

\* The line "bja" was submitted with all four fields set, in zone hzh
ZoneSwitched ==
  /\ Updated
  /\ turn.isScopeChanged
  /\ turn.input = <<"bja">>
  /\ turn.before = [zone |-> Str("hzh"), namespace |-> Str("ns-a"),
                    resource |-> Str("devbox"), name |-> Str("my-app")]
  /\ parameters.zone = Str("bja")

\* C16: updateParameters returns true exactly when the turn's tokens give a
\* zone that differs from the zone stored before the call, or a namespace
\* that differs from the namespace stored before the call; a stored empty
\* field differs from any value, and a resource kind or a name alone never
\* counts.
ChangedIffScopeDiffers ==
  Updated =>
    \A r \in {OfTurn} :
      turn.isScopeChanged <=>
        \/ r.zone # None /\ r.zone # turn.before.zone
        \/ r.namespace # None /\ r.namespace # turn.before.namespace

\* A first namespace was given while none was stored, with a zone stored
\* that the line does not name
FirstNamespace ==
  /\ Updated
  /\ turn.isScopeChanged
  /\ turn.before.zone # None
  /\ turn.before.namespace = None
  /\ OfTurn.zone = None
  /\ OfTurn.namespace # None

\* C17: after a turn without a scope change a field for which the turn's
\* tokens give a value holds that value, and every other field holds what
\* it held before the turn.
MergeOverwritesRecognized ==
  (Updated /\ ~turn.isScopeChanged) =>
    \A r \in {OfTurn}, f \in Fields :
      parameters[f] = IF r[f] # None THEN r[f] ELSE turn.before[f]

\* A turn replaced the stored resource kind and kept the stored zone and
\* name
ResourceReplaced ==
  /\ Updated
  /\ ~turn.isScopeChanged
  /\ turn.before.resource = Str("devbox")
  /\ parameters.resource = Str("pods")
  /\ OfTurn.zone = None
  /\ parameters.zone = Str("hzh")
  /\ OfTurn.name = None
  /\ parameters.name = Str("my-app")

\* C18: updateParameters applied again to the same line leaves the four
\* fields as the first application left them and returns false.
Idempotent ==
  Updated =>
    updateParameters(parameters, StripFlags(turn.input)) =
      [parameters |-> parameters, isScopeChanged |-> FALSE]

\* The first application changed the zone and set a resource kind and a
\* name where others were stored
ChangedAndRefilled ==
  /\ Updated
  /\ turn.isScopeChanged
  /\ turn.before.zone = Str("hzh")
  /\ turn.before.resource = Str("pods")
  /\ turn.before.namespace # None
  /\ parameters = [zone |-> Str("bja"), namespace |-> None,
                   resource |-> Str("devbox"), name |-> Str("my-app")]

\* C19: the line "devbox describe my-app" stores the name my-app, and the
\* line "my-app devbox" leaves the stored name as it was.
NameExamples ==
  Updated =>
    /\ turn.input = <<"devbox", "describe", "my-app">>
         => parameters.name = Str("my-app")
    /\ turn.input = <<"my-app", "devbox">>
         => parameters.name = turn.before.name

\* C20: the stored name after a turn is the token right after the last
\* resource kind of the line, when there is one and it is no zone keyword,
\* has no namespace prefix and is no filler word; in every other case no
\* name is recognized, and the stored name is the one before the turn, or
\* empty after a scope change.
NameFollowsLastResource ==
  Updated =>
    \A tokens \in {TurnTokens} :
      \A kinds \in {Positions(tokens, KNOWN_RESOURCES)} :
        parameters.name =
          IF kinds # {} /\ MayBeName(tokens, Last(kinds) + 1)
          THEN Str(tokens[Last(kinds) + 1])
          ELSE IF turn.isScopeChanged THEN None
          ELSE turn.before.name

\* A line with two resource kinds: the name follows the second, and a
\* zone follows the first
NameAfterSecondKind ==
  /\ Updated
  /\ Len(turn.input) = 3
  /\ Positions(turn.input, KNOWN_RESOURCES) = {1, 2}
  /\ parameters.name = Str("my-app")
  /\ turn.before.name = None

----------------------------------------------------------------------------
(* Fusion and dispatch of a turn *)

\* The backend's answer of the turn has been handled
Extracted == turn.raw # <<>>

\* An inspect candidate whose identifier is missing or is a zone keyword
InvalidInspect(item) ==
  item.intent = Str("inspect") /\ isMissingOrZone(item)

\* C21: once the answer of a turn holds an inspect candidate whose identifier
\* is missing or is a zone keyword, no worker has been started for any of
\* its candidates, exactly one error, the usage error, has been shown and
\* the shell is back at the prompt
InvalidInspectAborts ==
  (\E k \in DOMAIN turn.raw : InvalidInspect(turn.raw[k]))
    => /\ Workers = {}
       /\ turn.errors = <<"Usage">>
       /\ pc = "idle"

\* The candidates the extractor returned in this turn
Candidates == parseRawInput(turn.raw)

\* The fusion loop of this turn ran over every candidate
Fused == turn.fused # <<>> /\ turn.errors = <<>>

IsZoneWord(v) == v # None /\ toLowerCase(v[1]) \in KNOWN_ZONES

\* C22: a list candidate whose identifier is a zone keyword in any case
\* leaves fusion with the stored zone as its identifier when a zone is
\* stored; every other identifier of a list candidate leaves fusion as it
\* came
ListIdentifierBackfilled ==
  Fused =>
    \A c \in {Candidates} : \A k \in DOMAIN c :
      c[k].intent = Str("list") =>
        turn.fused[k].identifier =
          IF (~Present(c[k].identifier) \/ IsZoneWord(c[k].identifier))
             /\ parameters.zone # None
          THEN parameters.zone
          ELSE c[k].identifier

\* A list candidate with the identifier HZH is fused to bja, the stored zone
ZoneIdentifierReplaced ==
  /\ Fused
  /\ parameters.zone = Str("bja")
  /\ \E k \in DOMAIN turn.fused :
       /\ Candidates[k].identifier = Str("HZH")
       /\ turn.fused[k].intent = Str("list")
       /\ turn.fused[k].identifier = Str("bja")

\* C23: every fused candidate, and the query dispatched for it, carries the
\* candidate's own namespace when the candidate has one and the stored
\* namespace otherwise
NamespaceBackfilled ==
  Fused =>
    \A c \in {Candidates} : \A k \in DOMAIN c :
      \A ns \in {IF Present(c[k].namespace) THEN c[k].namespace
                 ELSE parameters.namespace} :
        /\ turn.fused[k].namespace = ns
        /\ pc \in {"legacy", "parallel"} => paramsList[k].namespace = ns

\* With ns-a stored, a batch is dispatched in which a candidate that came
\* with ns-b keeps it and a candidate that came without a namespace has ns-a
OwnNamespaceKept ==
  /\ Fused
  /\ pc = "parallel"
  /\ parameters.namespace = Str("ns-a")
  /\ \E j, k \in DOMAIN paramsList :
       /\ Candidates[j].namespace = Str("ns-b")
       /\ paramsList[j].namespace = Str("ns-b")
       /\ Candidates[k].namespace = None
       /\ paramsList[k].namespace = Str("ns-a")

\* The fusion loop of this turn reached candidate k: no candidate before it
\* made the loop return
Processed(k) ==
  /\ k \in DOMAIN turn.fused
  /\ \A j \in 1..(k - 1) : ~InvalidInspect(Candidates[j])

\* C24: from the moment fusion has processed a list candidate until the next
\* line the stored name is empty
ListClearsName ==
  (\E k \in DOMAIN turn.fused :
     Processed(k) /\ turn.fused[k].intent = Str("list"))
    => parameters.name = None

\* The name my-app was stored before the turn, the turn's line changed no
\* scope, and after the fusion of a list candidate the name is empty
RememberedNameDropped ==
  /\ turn.before.name = Str("my-app")
  /\ ~turn.isScopeChanged
  /\ \E k \in DOMAIN turn.fused :
       Processed(k) /\ turn.fused[k].intent = Str("list")
  /\ parameters.name = None

\* The step is the update of the Session Context at the start of a turn
UpdateStep == pc = "idle" /\ pc' = "extracting"

\* The step is the fusion loop of a turn
FusionStep == pc = "extracting" /\ turn'.raw # <<>>

\* C25 as stated: the Session Context changes in no step but the update at
\* the start of a turn
OnlyUpdateMutates ==
  [][parameters' # parameters => UpdateStep]_vars

\* C25 amended: the Session Context changes only in the update at the start
\* of a turn and in the fusion loop, which does nothing to it but empty the
\* name, and only when it has processed a list candidate; the workers'
\* events, the join, the display and the interrupts leave it alone
OnlyUpdateAndListFusionMutate ==
  [][parameters' # parameters =>
       \/ UpdateStep
       \/ /\ FusionStep
          /\ parameters' = [parameters EXCEPT !.name = None]
          /\ \E k \in DOMAIN turn'.fused :
               turn'.fused[k].intent = Str("list")]_vars

\* A batch was dispatched, a worker of it has exited and an interrupt was
\* taken, all with a zone stored, and fusion has emptied a stored name
ContextAcrossDispatch ==
  /\ parameters.zone # None
  /\ turn.before.name # None
  /\ ~turn.isScopeChanged
  /\ parameters.name = None
  /\ interrupts > 0
  /\ \E i \in Workers : Settled(i)

\* C26: no two workers of a batch were started for the same namespace,
\* resource kind, identifier and intent
NoDuplicateQueries ==
  \A j, k \in DOMAIN paramsList :
    (j # k /\ j \in Workers /\ k \in Workers) => paramsList[j] # paramsList[k]

\* C27: no line handler is under way beside a turn that is suspended at the
\* extractor or at the join of its workers
OneTurnInFlight == overlapping = 0

\* C28: whatever failure settles a task, neither runMcpTask nor
\* runMcpTaskLegacy throws: the failure is in the returned outcome only
FailuresAreValues == thrown = NoError

----------------------------------------------------------------------------
(* The aggregated display *)

\* The batch has been displayed by displayAggregatedResults
Displayed == pc = "done" /\ summary # <<>>

Orderings(n) ==
  {f \in [1..n -> 1..n] : \A a, b \in 1..n : a # b => f[a] # f[b]}

\* Kind a is displayed before kind b whatever their places in the batch: a
\* is in the priority table, and b is not in it or has a higher number
RanksBefore(a, b) ==
  /\ a \in DOMAIN priority
  /\ b \in DOMAIN priority => priority[a] < priority[b]

\* Neither kind ranks before the other
SameRank(a, b) == ~RanksBefore(a, b) /\ ~RanksBefore(b, a)

\* C29: the rows displayed are the outcomes of the batch, each once, in the
\* order of the priority table: of two rows the earlier one is of a kind that
\* ranks before the other's, or the kinds are of the same rank and the
\* earlier row is of the task that is earlier in the batch.  The order in
\* which the tasks settled does not enter.
DisplayedInPriorityOrder ==
  Displayed =>
    \E f \in Orderings(Len(paramsList)) :
      /\ Len(shown) = Len(paramsList)
      /\ \A k \in DOMAIN shown :
           /\ results[k] = task[f[k]].outcome
           /\ shown[k].resource = paramsList[f[k]].resource
           /\ shown[k].row = Row(task[f[k]].outcome)
      /\ \A j, k \in DOMAIN shown :
           j < k =>
             \/ RanksBefore(shown[j].resource, shown[k].resource)
             \/ /\ SameRank(shown[j].resource, shown[k].resource)
                /\ f[j] < f[k]

\* The batch obs, pods, cert is displayed as pods, obs, cert: the kind of the
\* table first, then the two kinds outside it in their batch order, told
\* apart by their rows
UnknownKindsLast ==
  /\ Displayed
  /\ [i \in DOMAIN paramsList |-> paramsList[i].resource]
       = <<"obs", "pods", "cert">>
  /\ [k \in DOMAIN shown |-> shown[k].resource] = <<"pods", "obs", "cert">>
  /\ shown[2].row = "rendered"
  /\ shown[3].row = "error"

\* What the display owes an outcome: the error inline for a Failure, the
\* parse failure for a content that does not decode, the rendering for one
\* that does
RowOwed(o) ==
  IF IsFailure(o) THEN "error"
  ELSE IF o.result = Null \/ o.result = Undefined THEN "nodata"
  ELSE IF GetField(o.result.value, "content") = <<"t2">> THEN "unparsed"
  ELSE "rendered"

\* C30: the display of a batch shows one row for every outcome of the batch
\* and no other row, the row of a Failure being the error of its kind,
\* whatever the other outcomes are, and ends with one summary line for the
\* whole batch
EveryOutcomeShownOnce ==
  Displayed =>
    /\ Len(shown) = Len(paramsList)
    /\ \A i \in Workers :
         Count(results, task[i].outcome)
           = Count([j \in Workers |-> task[j].outcome], task[i].outcome)
    /\ \A k \in DOMAIN shown :
         /\ shown[k].resource = results[k].resource
         /\ shown[k].row = RowOwed(results[k])
    /\ Len(summary) = 1
    /\ summary[1].types = Len(paramsList)

\* A batch of three is displayed with a parse failure first, a Failure
\* second, a rendered result last, and the summary
ErrorsDoNotStopDisplay ==
  /\ Displayed
  /\ Len(shown) = 3
  /\ shown[1].row = "unparsed"
  /\ shown[2].row = "error"
  /\ shown[3].row = "rendered"
  /\ Len(summary) = 1
  /\ summary[1].types = 3

----------------------------------------------------------------------------
(* The direct path, the snapshot and the flags *)

\* C31: when a batch of one query has been handled, by either path, the
\* snapshot holds the one entry of the task's outcome and the user has been
\* shown the one row of that outcome
PathsAgree ==
  (pc = "done" /\ Len(paramsList) = 1) =>
    /\ lastToolResult = <<SnapshotEntry(task[1].outcome)>>
    /\ shown = <<[resource |-> task[1].resource,
                  row |-> Row(task[1].outcome)]>>

\* C32: the step that updates the Session Context for a line hands the
\* extractor the snapshot as that step leaves it: empty when
\* updateParameters returned true, the stored snapshot, untouched, when it
\* returned false
SnapshotFollowsScope ==
  [][UpdateStep =>
       /\ turn'.context = lastToolResult'
       /\ turn'.isScopeChanged => lastToolResult' = NoSnapshot
       /\ ~turn'.isScopeChanged => lastToolResult' = lastToolResult]_vars

\* A turn without a scope change has handed the extractor a stored snapshot
SnapshotPassedOn ==
  /\ pc = "extracting"
  /\ ~turn.isScopeChanged
  /\ turn.context # NoSnapshot
  /\ turn.context = lastToolResult

\* The extractor has nothing to return for the answer raw: every candidate
\* of it lacks the resource, the identifier, or the namespace without being
\* a node
NothingExtracted(raw) ==
  \A k \in DOMAIN raw :
    \/ raw[k].resource = None
    \/ raw[k].identifier = None
    \/ raw[k].namespace = None /\ raw[k].resource # Str("node")

\* C33: the step in which the extractor returns null or an empty list shows
\* the guidance, starts no worker and leaves the shell at the prompt
NothingExtractedPrompts ==
  [][(pc = "extracting" /\ turn'.answered /\ NothingExtracted(turn'.raw)) =>
       /\ turn'.errors = <<"Invalid input">>
       /\ task' = task
       /\ activeMcpServers' = activeMcpServers
       /\ pc' = "idle"]_vars

\* The backend answered with candidates of which none is usable; the
\* guidance was shown and the shell is at the prompt with no worker
GuidanceShown ==
  /\ turn.answered
  /\ turn.raw # <<>>
  /\ NothingExtracted(turn.raw)
  /\ turn.errors = <<"Invalid input">>
  /\ Workers = {}
  /\ pc = "idle"

----------------------------------------------------------------------------
(* The log-line-count flag *)

\* Inputs with and without --lines: a positive value, zero, no value, a
\* value that is not made of digits, the flag twice and the flag first
FlagLines ==
  { <<"pods", "my-app">>,
    <<"pods", "my-app", "--lines", "5">>,
    <<"pods", "my-app", "--lines", "0">>,
    <<"pods", "my-app", "--lines">>,
    <<"pods", "--lines", "-3", "my-app">>,
    <<"--lines", "5", "pods", "my-app", "--raw">>,
    <<"pods", "my-app", "--lines", "--lines", "5">> }

NextFlag ==
  \/ /\ pc = "idle"
     /\ \E line \in FlagLines : OnLine(line)
  \/ \E raw \in RawAnswers :
       OnExtracted(raw, [i \in 1..Len(raw) |-> <<>>])

FlagSpec == Init /\ [][NextFlag]_vars

\* The token that follows the first --lines of the input typed in this
\* turn, "" when the flag is last or absent
FlagValue ==
  LET at == { k \in 1..Len(turn.input) : turn.input[k] = "--lines" }
      i  == CHOOSE k \in at : \A j \in at : k <= j
  IN  IF at = {} \/ i = Len(turn.input) THEN "" ELSE turn.input[i + 1]

----------------------------------------------------------------------------
(* The summary's item count *)

CountBatches == { <<"pods", "event">>, <<"event", "node">> }

\* A worker that exits silently, one that answers text that is not JSON,
\* and workers that answer a list of two pods, a list of two events and an
\* inspect payload
CountScripts ==
  { <<>>, <<ResultLine("t2") \o <<NL>>>>, <<ResultLine("pods2") \o <<NL>>>>,
    <<ResultLine("ev2") \o <<NL>>>>, <<ResultLine("man") \o <<NL>>>> }

NextCount ==
  \/ \E kinds \in CountBatches :
       runMcpTaskOf([i \in 1..Len(kinds) |-> [resource |-> kinds[i]]],
                    CountScripts, NoFaults(Len(kinds)))
  \/ \E i \in Workers : OnStdoutData(i)
  \/ \E i \in Workers, code \in ExitCodes \cup {"null"} :
       OnExit(i, code, Len(script[i]))
  \/ JoinAll
  \/ displayAggregatedResults

CountSpec == Init /\ [][NextCount]_vars

\* The number of items of the payload a task settled Success with: the
\* length of a list, of an events list too, and one for an inspect payload;
\* nothing for a failure, for no data and for a text that is not JSON
ItemsOf(o) ==
  IF ~IsSuccess(o) \/ ~ResultTruthy(o.result) THEN 0
  ELSE LET content == GetField(o.result.value, "content") IN
       IF content = <<"pods2">> \/ content = <<"ev2">> THEN 2
       ELSE IF content = <<"man">> THEN 1
       ELSE 0

\* C35: the summary's item count is the sum of the items of the payloads
\* the tasks settled Success with
CountIsSumOfItems ==
  Displayed =>
    summary[1].totalFound =
      ItemsOf(task[1].outcome) + ItemsOf(task[2].outcome)

----------------------------------------------------------------------------
(* The worker's output and its chunks *)

\* Output streams of one worker, among them a line that goes on after a
\* complete object
ChunkStreams ==
  { ResultLine("t1") \o <<NL>>,
    <<"{", "result", "t1", "}", "x", NL>>,
    <<"{", "error", "{", "message", "m1", "}", "}", NL,
      "{", "result", "t1", "}", NL>>,
    <<"x", NL, "{", "result", "null", "}", NL>> }

ChunkScripts == UNION {Chunkings(s, MaxChunks) : s \in ChunkStreams}

\* One query dispatched; its worker writes a stream in chunks and exits
NextChunk ==
  \/ \E k \in 1..2 :
       runMcpTaskOf(<<[resource |-> Kinds[k]]>>, ChunkScripts, NoFaults(1))
  \/ \E i \in Workers : OnStdoutData(i)
  \/ \E i \in Workers, code \in ExitCodes \cup {"null"} :
       OnExit(i, code, Len(script[i]))
  \/ JoinAll

ChunkSpec == Init /\ [][NextChunk]_vars

\* The chunks of a script joined again: the output byte stream
RECURSIVE Stream(_)
Stream(chunks) ==
  IF chunks = <<>> THEN <<>> ELSE Head(chunks) \o Stream(Tail(chunks))

\* What task i settles with when its worker's output arrives in one chunk
OutcomeUnchunked(i) ==
  StdoutHandler(executeSingleMcpTask(paramsList[i], FALSE, FALSE),
                Stream(script[i])).outcome

\* Task i was settled by a line of its worker's output
SettledByOutput(i) ==
  \/ IsSuccess(task[i].outcome) /\ task[i].outcome.result.tag = "value"
  \/ IsFailure(task[i].outcome) /\ task[i].outcome.error.kind = "server"

\* C36: a task that a line of the output settled has the outcome the whole
\* output in one chunk settles it with, and a task that has read the whole
\* output and is still pending would be pending after one chunk as well
ChunkingIrrelevant ==
  \A i \in Workers :
    /\ SettledByOutput(i) => task[i].outcome = OutcomeUnchunked(i)
    /\ (task[i].delivered = Len(script[i]) /\ ~task[i].hasResponded) =>
         OutcomeUnchunked(i) = Pending

----------------------------------------------------------------------------
(* The snapshot and the scope *)

\* C37: a step that stores a snapshot stores the results of queries that
\* were dispatched in the scope the Session Context has now: no line has
\* changed the zone or the namespace since they were dispatched
SnapshotOfCurrentScope ==
  [][(lastToolResult' # lastToolResult /\ lastToolResult' # NoSnapshot) =>
       /\ parameters.zone = turn.dispatched.zone
       /\ parameters.namespace = turn.dispatched.namespace]_vars

----------------------------------------------------------------------------
(* Turns that dispatch nothing *)

\* C38: after a turn that ended with the guidance or with the usage error,
\* without a dispatch, the Session Context is as update left it at the start
\* of the turn
ContextKeptWithoutDispatch ==
  (turn.answered /\ turn.errors # <<>>) => parameters = turn.updated

----------------------------------------------------------------------------
(* Lines that decode and carry neither an error nor a result *)

\* The buffer holds a line that decodes, and no line of it carries a truthy
\* error or result
OnlyNotifications(buf) ==
  /\ DecisiveLines(buf) = {}
  /\ \E k \in 1..Len(SplitLines(Trim(buf))) :
       Framed(SplitLines(Trim(buf))[k]) /\ JsonOk(SplitLines(Trim(buf))[k])

\* C39: a chunk that leaves in the buffer decoded lines without a truthy
\* error or result, and no other decoded line, leaves the task pending, the
\* worker running and unsignalled and the timer as it was; a chunk settles
\* the task only when the buffer has a line with a truthy error or result
NotificationLeavesPending ==
  [][\A i \in Workers :
       task'[i].delivered = task[i].delivered + 1 =>
         /\ OnlyNotifications(task'[i].responseData) =>
              /\ task'[i].outcome = Pending
              /\ ~task'[i].hasResponded
              /\ ~task'[i].killed
              /\ task'[i].proc = "running"
              /\ task'[i].timer = task[i].timer
              /\ i \in activeMcpServers'
         /\ task'[i].outcome # Pending =>
              DecisiveLines(task'[i].responseData) # {}]_vars

\* A worker wrote {"result":null} in a first chunk and a result in a
\* second one, and the second one settled the task
SettledAfterNotification ==
  \E i \in Workers :
    /\ script[i] = << <<"{", "result", "null", "}", NL>>,
                      <<"{", "result", "t2", "}", NL>> >>
    /\ task[i].delivered = 2
    /\ task[i].outcome = Success(task[i].resource, Value(<<"t2">>))

----------------------------------------------------------------------------
(* Inputs of fewer than two tokens *)

\* Inputs of no token, of one token and of two tokens once their flags are
\* taken off
ShortLines ==
  { <<"--raw">>, <<"pods">>, <<"hzh">>, <<"my-app">>, <<"--raw", "ns-a">>,
    <<"pods", "--lines", "5">>, <<"bja", "pods">>, <<"devbox", "my-app">> }

NextShort ==
  \/ /\ pc = "idle"
     /\ \E line \in ShortLines : OnLine(line)
  \/ \E enabled \in BOOLEAN : OnRejected(enabled)
  \/ \E raw \in SnapshotAnswers :
       OnExtracted(raw, [i \in 1..Len(raw) |-> <<>>])
  \/ \E i \in Workers : OnExit(i, "0", Len(script[i]))
  \/ JoinAll
  \/ displayAggregatedResults
  \/ LegacyReturn
  \/ Prompted

ShortSpec == Init /\ [][NextShort]_vars

\* The input of the turn has fewer than two tokens once --raw and --lines
\* are taken off
ShortInput == Len(Split(StripFlags(turn.input))) < 2

\* C40: the handler of an input of fewer than two tokens goes from the
\* extractor to the prompt with an error shown, without an answer of the
\* backend, without a worker started, and with the Session Context as
\* update left it
ShortInputRejected ==
  [][(pc = "extracting" /\ ShortInput) =>
       /\ pc' = "idle"
       /\ turn'.errors # <<>>
       /\ ~turn'.answered
       /\ task' = task
       /\ activeMcpServers' = activeMcpServers
       /\ parameters' = turn.updated]_vars

\* An input of one token was rejected after update had stored its token
ShortInputUpdateKept ==
  /\ pc = "idle"
  /\ Len(turn.input) = 1
  /\ ShortInput
  /\ turn.errors = <<"Expected at least 2 parameters">>
  /\ turn.updated # turn.before
  /\ parameters = turn.updated
  /\ Workers = {}

====
